---- MODULE Spec2Model ----
(***************************************************************************)
(* WireGuard management API: the peer lifecycle (create_peer, delete_peer)  *)
(* over three stores -- the live interface, the config file and the        *)
(* in-memory key store -- and the IPv4 allocator.                          *)
(*                                                                         *)
(* Encodings.  An IPv4 address a.b.c.d is the integer                      *)
(* ((a*256+b)*256+c)*256+d, so the text of an address and its number       *)
(* determine each other.  A CIDR string "a.b.c.d/p" is <<address, p>>.     *)
(* An allowed-ips entry is an integer: 0 is "0.0.0.0/0", any other value   *)
(* x is "<x>/32".  The config file is the sequence content.split('\n') of  *)
(* its lines; a line is <<keyword, values>>, the keyword being what the    *)
(* code's strip()/startswith() tests look at.                              *)
(*                                                                         *)
(* Besides the lifecycle (Spec, PoolSpec, SyncSpec, ReadSpec) the module   *)
(* holds the parts that can be studied alone: the allocator (AllocSpec),   *)
(* dump_peers and the metrics handlers (DumpSpec), one external command    *)
(* (ExecSpec), the config file under a reader (FileSpec), the requests on  *)
(* the event loop (LoopSpec), the two listings of one interface (NameSpec),*)
(* get_interface_info (InfoSpec) and the database's interface row (DbSpec).*)
(***************************************************************************)
EXTENDS Integers, Sequences, FiniteSets, TLC

VARIABLES
    live,       \* the interface's peers: public key -> [ips, psk, ka]
    doc,        \* /etc/wireguard/wg0.conf as its sequence of lines
    store,      \* peer_keys_store: public key -> stored record
    pc,         \* position of the request being served ("idle" between requests)
    cur,        \* locals of the request being served
    res,        \* the response of the last finished request
    steps,      \* the steps the request being served has performed, in order
    before,     \* live, doc and store as they were when the request started
    nKeys,      \* number of private keys generated so far
    nRequests,  \* number of requests received so far
    prev,       \* the request served before this one: what it was and how it ended
    explicit,   \* whether some create_peer request so far named its own address
    a_cidr,     \* allocator under test: the CIDR argument
    a_inuse,    \* allocator under test: the addresses in use
    a_res,      \* allocator under test: << >>, then <<what next_ipv4 gave>>
    listing,    \* what list_peers answered since the last request: << >>, then <<its result>>
    up,         \* whether the interface wg0 exists
    restarts,   \* number of times restart_interface has run
    reply,      \* what the last read of one peer answered: << >>, then <<its result>>
    d_out,      \* dump_peers under test: what `wg show wg0 dump` gives
    d_res,      \* dump_peers under test: << >>, then <<what dump_peers gave>>
    m_res,      \* the metrics handlers under test: << >>, then <<their answer>>
    ex,         \* one external command: the call, its attempts, the time waited
    wr,         \* a rewrite of the config file: its position and the two documents
    seen,       \* what a reader of the config file read: << >>, then <<the lines>>
    tasks,      \* the event loop: the handler of each accepted request and its position
    trace,      \* the event loop: the steps performed, in order, as <<task, step>>
    i_out,      \* get_interface_info under test: what `wg show wg0` gives
    i_res,      \* get_interface_info under test: << >>, then <<what it returned>>
    iface,      \* the interface table of the database: << >>, or <<its one row>>
    inits       \* the calls of Database.init_interface: arguments, position, outcome

vars == <<live, doc, store, pc, cur, res, steps, before, nKeys, nRequests,
          prev, explicit, a_cidr, a_inuse, a_res, listing, up, restarts,
          reply, d_out, d_res, m_res, ex, wr, seen, tasks, trace,
          i_out, i_res, iface, inits>>

\* ------------------------------------------------------------------ bounds

\* requests (create_peer, delete_peer, list_peers) served in one behaviour
MaxRequests == 2

\* ------------------------------------------------------- addresses, CIDRs

Ip4(a, b, c, d) == ((a * 256 + b) * 256 + c) * 256 + d

RECURSIVE Pow2(_)
Pow2(n) == IF n = 0 THEN 1 ELSE 2 * Pow2(n - 1)

\* the block of a CIDR: the addresses sharing its first p bits
BlockSize(cidr) == Pow2(32 - cidr[2])
InBlock(ip, cidr) == ip \div BlockSize(cidr) = cidr[1] \div BlockSize(cidr)
HostId(ip, cidr) == ip % BlockSize(cidr)
\* range(2, 255): the first and one past the last last-octet tried
FirstHost == 2
HostEnd == 255

\* default CIDR of get_next_available_ip and of create_peer's fallback
DefaultCidr == <<Ip4(10, 8, 0, 0), 24>>

\* ---------------------------------------------------------- the allocator

\* what the allocator gives: an address, or the raised
\* Exception("No available IPv4 addresses")
Address(ip) == [ok |-> TRUE, ip |-> ip]
Exhausted == [ok |-> FALSE, ip |-> 0]

\* for i in range(2, 255): ip = f"{base_network}.{i}"; the first i whose
\* address is not in existing_ips is returned, and none raises
ScanHosts(base_network, existing_ips, first) ==
    LET free == { i \in first..(HostEnd - 1) :
                    (base_network * 256 + i) \notin existing_ips }
    IN  IF free = {} THEN Exhausted
        ELSE Address(base_network * 256 + (CHOOSE i \in free : \A j \in free : i <= j))

\* a scan that starts at the first host address instead of the second
next_ipv4_from_one(cidr, existing_ips) ==
    ScanHosts(cidr[1] \div 256, existing_ips, 1)

\* a scan that hands out the last candidate instead of giving up
next_ipv4_no_exhaust(cidr, existing_ips) ==
    LET r == ScanHosts(cidr[1] \div 256, existing_ips, FirstHost)
    IN  IF r.ok THEN r ELSE Address((cidr[1] \div 256) * 256 + HostEnd - 1)

\* get_next_available_ip after the dump: base_network is the first three
\* octets of the CIDR's address, whatever the prefix length
next_ipv4(cidr, existing_ips) ==
    ScanHosts(cidr[1] \div 256, existing_ips, FirstHost)

\* ------------------------------------------------------- the config file

Line(keyword, values) == <<keyword, values>>
InterfaceHeader == Line("[Interface]", << >>)
PeerHeader == Line("[Peer]", << >>)
Blank == Line("", << >>)

\* line.strip() == '[Peer]'
IsPeerHeader(line) == line[1] = "[Peer]"
\* line.strip().startswith('PublicKey = ')
IsPublicKeyLine(line) == line[1] = "PublicKey"
\* the startswith() tests of the scan: PublicKey, PresharedKey, AllowedIPs,
\* PersistentKeepalive, Endpoint
IsPeerField(line) ==
    line[1] \in {"PublicKey", "PresharedKey", "AllowedIPs", "PersistentKeepalive",
                 "Endpoint"}
\* line.strip() is empty
IsBlank(line) == line[1] = ""
\* line.strip().startswith('[')
IsSectionHeader(line) == line[1] \in {"[Interface]", "[Peer]"}

\* peer_config of _save_peer_to_config, as the lines that `echo '...' >> file`
\* adds after the file's last line break: the block, the block's own final
\* line break and the one echo adds.  A line is written only for a truthy
\* field (None, 0 and an empty list write none).
PeerBlock(public_key, allowed_ips, pre_shared_key, persistent_keepalive) ==
       << PeerHeader, Line("PublicKey", <<public_key>>) >>
    \o (IF pre_shared_key # 0
        THEN << Line("PresharedKey", <<pre_shared_key>>) >> ELSE << >>)
    \o (IF allowed_ips # << >>
        THEN << Line("AllowedIPs", allowed_ips) >> ELSE << >>)
    \o (IF persistent_keepalive # 0
        THEN << Line("PersistentKeepalive", <<persistent_keepalive>>) >> ELSE << >>)
    \o << Blank, Blank >>

\* an append that truncates the file first ('>' for '>>')
save_peer_overwrite(content, public_key, allowed_ips, pre_shared_key, persistent_keepalive) ==
    PeerBlock(public_key, allowed_ips, pre_shared_key, persistent_keepalive)

\* an append that leaves out the allowed-ips line
save_peer_no_ips(content, public_key, allowed_ips, pre_shared_key, persistent_keepalive) ==
    content \o PeerBlock(public_key, << >>, pre_shared_key, persistent_keepalive)

\* an append that writes the block twice
save_peer_twice(content, public_key, allowed_ips, pre_shared_key, persistent_keepalive) ==
    content
        \o PeerBlock(public_key, allowed_ips, pre_shared_key, persistent_keepalive)
        \o PeerBlock(public_key, allowed_ips, pre_shared_key, persistent_keepalive)

\* _save_peer_to_config when the append command succeeds
save_peer_to_config(content, public_key, allowed_ips, pre_shared_key, persistent_keepalive) ==
    content \o PeerBlock(public_key, allowed_ips, pre_shared_key,
                         persistent_keepalive)

\* the loop of _remove_peer_from_config over lines[i..], with new_lines and
\* skip_peer as the loop leaves them
RECURSIVE RemoveScan(_, _, _, _, _)
RemoveScan(lines, i, public_key, new_lines, skip_peer) ==
    IF i > Len(lines) THEN new_lines
    ELSE LET line == lines[i] IN
        IF IsPeerHeader(line)
        THEN RemoveScan(lines, i + 1, public_key, new_lines, TRUE)
        ELSE IF skip_peer
        THEN IF IsPublicKeyLine(line)
             THEN IF line[2] = <<public_key>>
                  THEN RemoveScan(lines, i + 1, public_key, new_lines, TRUE)
                  ELSE RemoveScan(lines, i + 1, public_key,
                                  new_lines \o << PeerHeader, line >>, FALSE)
             ELSE IF ~IsBlank(line) /\ ~IsPeerField(line)
             THEN RemoveScan(lines, i + 1, public_key,
                             new_lines
                                \o (IF IsSectionHeader(line) THEN << >>
                                    ELSE << PeerHeader >>)
                                \o << line >>,
                             FALSE)
             ELSE RemoveScan(lines, i + 1, public_key, Append(new_lines, line), TRUE)
        ELSE RemoveScan(lines, i + 1, public_key, Append(new_lines, line), FALSE)

\* _remove_peer_from_config when the read and the write succeed: the file
\* becomes '\n'.join(new_lines) followed by the here-document's line break
remove_peer_from_config(content, public_key) ==
    RemoveScan(content, 1, public_key, << >>, FALSE) \o << Blank >>

\* ------------------------------------------------- the interface (wg, wg-quick)

NoPeer == [ips |-> {}, psk |-> 0, ka |-> 0]

\* `wg set wg0 peer K`: the peer exists afterwards
WgSetPeer(l, k) ==
    [x \in DOMAIN l \cup {k} |-> IF x \in DOMAIN l THEN l[x] ELSE NoPeer]

\* `wg set wg0 peer K preshared-key /dev/stdin`
WgSetPsk(l, k, psk) ==
    [x \in DOMAIN l \cup {k} |->
        IF x = k THEN [WgSetPeer(l, k)[k] EXCEPT !.psk = psk] ELSE l[x]]

\* `wg set wg0 peer K allowed-ips a,b`: K's entries are replaced, and an entry
\* routes to one peer only, so it leaves the peer that had it
WgSetAllowedIps(l, k, ips) ==
    [x \in DOMAIN l \cup {k} |->
        IF x = k THEN [WgSetPeer(l, k)[k] EXCEPT !.ips = ips]
        ELSE [l[x] EXCEPT !.ips = @ \ ips]]

\* `wg set wg0 peer K persistent-keepalive n`
WgSetKeepalive(l, k, ka) ==
    [x \in DOMAIN l \cup {k} |->
        IF x = k THEN [WgSetPeer(l, k)[k] EXCEPT !.ka = ka] ELSE l[x]]

\* `wg set wg0 peer K remove`: succeeds whether or not K is a peer
WgRemovePeer(l, k) == [x \in DOMAIN l \ {k} |-> l[x]]

Range(seq) == { seq[i] : i \in 1..Len(seq) }

\* `wg-quick strip wg0` read by `wg syncconf`: the peers the file declares,
\* in file order, or not ok when wg rejects the file (a peer field in the
\* Interface section, an interface field in a Peer section, a field before
\* any section, a Peer section without PublicKey)
RECURSIVE WgParse(_, _, _, _)
WgParse(lines, i, section, peers) ==
    IF i > Len(lines)
    THEN [ok |-> \A j \in 1..Len(peers) : peers[j].key # 0, peers |-> peers]
    ELSE LET line == lines[i]
             n == Len(peers)
         IN
        IF IsBlank(line) \/ line[1] = "Address"
        THEN WgParse(lines, i + 1, section, peers)
        ELSE IF line[1] = "[Interface]"
        THEN WgParse(lines, i + 1, "interface", peers)
        ELSE IF IsPeerHeader(line)
        THEN WgParse(lines, i + 1, "peer",
                     Append(peers, [key |-> 0, ips |-> {}, psk |-> 0, ka |-> 0]))
        ELSE IF line[1] \in {"PrivateKey", "ListenPort"}
        THEN IF section = "interface"
             THEN WgParse(lines, i + 1, section, peers)
             ELSE [ok |-> FALSE, peers |-> << >>]
        ELSE IF section # "peer"
        THEN [ok |-> FALSE, peers |-> << >>]
        ELSE IF line[1] = "PublicKey"
        THEN WgParse(lines, i + 1, section, [peers EXCEPT ![n].key = line[2][1]])
        ELSE IF line[1] = "PresharedKey"
        THEN WgParse(lines, i + 1, section, [peers EXCEPT ![n].psk = line[2][1]])
        ELSE IF line[1] = "AllowedIPs"
        THEN WgParse(lines, i + 1, section,
                     [peers EXCEPT ![n].ips = @ \cup Range(line[2])])
        ELSE IF line[1] = "PersistentKeepalive"
        THEN WgParse(lines, i + 1, section, [peers EXCEPT ![n].ka = line[2][1]])
        ELSE WgParse(lines, i + 1, section, peers)

\* the interface after `wg syncconf` of parsed peers: exactly the file's
\* peers; of two sections with one key the later stands, and an allowed-ips
\* entry goes to the last section that lists it
WgSyncConf(peers) ==
    LET last(k) == CHOOSE j \in 1..Len(peers) :
                        /\ peers[j].key = k
                        /\ \A j2 \in 1..Len(peers) : peers[j2].key = k => j2 <= j
        later(j) == UNION { peers[j2].ips : j2 \in (j + 1)..Len(peers) }
    IN  [k \in { peers[j].key : j \in 1..Len(peers) } |->
            [ips |-> peers[last(k)].ips \ later(last(k)),
             psk |-> peers[last(k)].psk,
             ka  |-> peers[last(k)].ka]]

\* `wg show wg0 dump` as dump_peers reads it: each peer's ipv4_address is the
\* address of one of its allowed-ips entries (the last in the order wg
\* prints them), and a peer without entries has none
DumpViews(l) ==
    LET with == { k \in DOMAIN l : l[k].ips # {} }
        several == { k \in with : Cardinality(l[k].ips) > 1 }
        picks == { g \in [several -> UNION { l[k].ips : k \in several }] :
                    \A k \in several : g[k] \in l[k].ips }
    IN  { [k \in with |-> IF k \in several THEN g[k]
                          ELSE CHOOSE ip \in l[k].ips : TRUE] : g \in picks }

\* existing_ips of get_next_available_ip: the ipv4_address of every dumped peer
ExistingIps(view) == { view[k] : k \in DOMAIN view }

\* create_peer's CIDR: the /24 of the config file's (last) Address line, or
\* the default when the file cannot be read or has none
CreateCidr(content, readable) ==
    LET at == { i \in 1..Len(content) : content[i][1] = "Address" }
    IN  IF ~readable \/ at = {} THEN DefaultCidr
        ELSE LET i == CHOOSE i \in at : \A j \in at : j <= i
             IN  << (content[i][2][1] \div 256) * 256, 24 >>

\* ------------------------------------------------------------ key material

\* `wg genkey`: a new private key each time; the n-th one generated is n
generate_private_key(n) == n
\* `wg pubkey`: a function of the private key
get_public_key(private_key) == 100 + private_key
\* `wg genpsk`: a new preshared key each time
generate_pre_shared_key(n) == 200 + n

\* a peer the interface and the file had before this API served anything
ForeignKey == get_public_key(0)
ForeignPeer == [ips |-> {Ip4(10, 8, 0, 2)}, psk |-> 200, ka |-> 0]
\* a public key no peer ever had
UnknownKey == get_public_key(99)

InterfaceSection ==
    << InterfaceHeader,
       Line("PrivateKey", <<1>>),
       Line("Address", <<Ip4(10, 8, 0, 1), 24>>),
       Line("ListenPort", <<51820>>) >>

ForeignSection ==
    << Blank, PeerHeader,
       Line("PublicKey", <<ForeignKey>>),
       Line("PresharedKey", <<200>>),
       Line("AllowedIPs", <<Ip4(10, 8, 0, 2)>>) >>

\* PeerCreate bodies: ipv4_address (0: none given), allowed_ips (empty: none
\* given), persistent_keepalive (0: none or 0, which the code treats alike).
\* The body with every optional field at its default, and the bodies that
\* differ from it in one field.
DefaultRequest ==
    [ name |-> "alice", ipv4_address |-> 0, allowed_ips |-> << >>,
      persistent_keepalive |-> 25 ]

Requests ==
    { DefaultRequest,
      [DefaultRequest EXCEPT !.name = ""],
      [DefaultRequest EXCEPT !.ipv4_address = Ip4(10, 8, 0, 2)],
      [DefaultRequest EXCEPT !.allowed_ips = <<0>>],
      [DefaultRequest EXCEPT !.persistent_keepalive = 0] }

NoLocals ==
    [ op |-> "none", req |-> << >>, private_key |-> 0, public_key |-> 0,
      pre_shared_key |-> 0, ipv4_address |-> 0, allowed_ips |-> << >>,
      dumped |-> TRUE, saved |-> TRUE, synced |-> TRUE ]

NoRequest ==
    [ op |-> "none", status |-> "none", public_key |-> 0, ipv4_address |-> 0,
      assigned |-> FALSE, clean |-> TRUE ]

NoResponse == [ op |-> "none", status |-> "none", public_key |-> 0,
                ipv4_address |-> 0, warning |-> FALSE ]

AllocIdle == a_cidr = DefaultCidr /\ a_inuse = {} /\ a_res = << >>

\* the parts of the state that a request being served does not touch, at rest
NoDump == [ok |-> FALSE, records |-> << >>, text |-> << >>]
NoCall == [pc |-> "idle", call |-> "none", outcomes |-> << >>, attempts |-> << >>,
           waited |-> 0, result |-> "none"]
NoRewrite == [pc |-> "idle", old |-> << >>, new |-> << >>, n |-> 0]
NoInfo == [ok |-> FALSE, public_key |-> << >>, listening_port |-> << >>, text |-> << >>]

SideIdle ==
    /\ reply = << >>
    /\ d_out = NoDump /\ d_res = << >> /\ m_res = << >>
    /\ ex = NoCall
    /\ wr = NoRewrite /\ seen = << >>
    /\ tasks = << >> /\ trace = << >>
    /\ i_out = NoInfo /\ i_res = << >>
    /\ iface = << >> /\ inits = << >>

Init ==
    /\ \/ /\ live = << >>
          /\ doc = InterfaceSection \o << Blank >>
       \/ /\ live = [k \in {ForeignKey} |-> ForeignPeer]
          /\ doc = InterfaceSection \o ForeignSection \o << Blank >>
    /\ store = << >>
    /\ pc = "idle"
    /\ cur = NoLocals
    /\ res = NoResponse
    /\ steps = << >>
    /\ before = [live |-> live, doc |-> doc, store |-> store]
    /\ nKeys = 0
    /\ nRequests = 0
    /\ prev = NoRequest
    /\ explicit = FALSE
    /\ AllocIdle
    /\ SideIdle
    /\ listing = << >>
    /\ up = TRUE
    /\ restarts = 0

\* an interface on which every address the allocator can give is taken: the
\* foreign peer at .2 and one peer at each of .3 to .254, none of them
\* declared in the file
PoolPeers ==
    [k \in {ForeignKey} \cup { 1000 + i : i \in (FirstHost + 1)..(HostEnd - 1) } |->
        IF k = ForeignKey THEN ForeignPeer
        ELSE [ips |-> {Ip4(10, 8, 0, k - 1000)}, psk |-> 0, ka |-> 0]]

PoolInit ==
    /\ live = PoolPeers
    /\ doc = InterfaceSection \o << Blank >>
    /\ store = << >>
    /\ pc = "idle"
    /\ cur = NoLocals
    /\ res = NoResponse
    /\ steps = << >>
    /\ before = [live |-> live, doc |-> doc, store |-> store]
    /\ nKeys = 0
    /\ nRequests = 0
    /\ prev = NoRequest
    /\ explicit = FALSE
    /\ AllocIdle
    /\ SideIdle
    /\ listing = << >>
    /\ up = TRUE
    /\ restarts = 0

AllocVars == <<a_cidr, a_inuse, a_res>>
SyncVars == <<up, restarts>>
HistVars == <<prev, explicit>>
MainVars == <<live, doc, store, pc, cur, res, steps, before, nKeys, nRequests,
              prev, explicit, listing, up, restarts>>
DumpVars == <<d_out, d_res, m_res>>
FileVars == <<wr, seen>>
LoopVars == <<tasks, trace>>
InfoVars == <<i_out, i_res>>
DbVars == <<iface, inits>>
SideVars == <<reply, DumpVars, ex, FileVars, LoopVars, InfoVars, DbVars>>

\* what is kept of a request when the next one arrives
Summary ==
    [ op |-> cur.op, status |-> res.status, public_key |-> cur.public_key,
      ipv4_address |-> cur.ipv4_address,
      assigned |-> cur.op = "create" /\ cur.req.ipv4_address = 0,
      clean |-> cur.saved /\ cur.synced ]

\* the order of the calls: create_peer (keys, address), add_peer (the four
\* `wg set`, _save_peer_to_config, _sync_config), back in create_peer (the key
\* store, the response); delete_peer: remove_peer (`wg set ... remove`,
\* _remove_peer_from_config, _sync_config), then the key store
NextPcAllocLate(p) ==
    CASE p = "keys" -> "set_peer"
      [] p = "set_peer" -> "alloc"
      [] p = "alloc" -> "set_psk"
      [] p = "set_psk" -> "set_ips"
      [] p = "set_ips" -> "set_ka"
      [] p = "set_ka" -> "save"
      [] p = "save" -> "sync"
      [] p = "sync" -> "store"
      [] p = "store" -> "respond"
      [] p = "respond" -> "idle"
      [] p = "d_remove" -> "d_config"
      [] p = "d_config" -> "d_sync"
      [] p = "d_sync" -> "d_store"
      [] p = "d_store" -> "idle"

NextPcUnstoreFirst(p) ==
    CASE p = "keys" -> "alloc"
      [] p = "alloc" -> "set_peer"
      [] p = "set_peer" -> "set_psk"
      [] p = "set_psk" -> "set_ips"
      [] p = "set_ips" -> "set_ka"
      [] p = "set_ka" -> "save"
      [] p = "save" -> "sync"
      [] p = "sync" -> "store"
      [] p = "store" -> "respond"
      [] p = "respond" -> "idle"
      [] p = "d_remove" -> "d_config"
      [] p = "d_config" -> "d_store"
      [] p = "d_store" -> "d_sync"
      [] p = "d_sync" -> "idle"

NextPcStoreFirst(p) ==
    CASE p = "keys" -> "alloc"
      [] p = "alloc" -> "set_peer"
      [] p = "set_peer" -> "set_psk"
      [] p = "set_psk" -> "set_ips"
      [] p = "set_ips" -> "set_ka"
      [] p = "set_ka" -> "save"
      [] p = "save" -> "store"
      [] p = "store" -> "sync"
      [] p = "sync" -> "respond"
      [] p = "respond" -> "idle"
      [] p = "d_remove" -> "d_config"
      [] p = "d_config" -> "d_sync"
      [] p = "d_sync" -> "d_store"
      [] p = "d_store" -> "idle"

NextPc(p) ==
    CASE p = "keys" -> "alloc"
      [] p = "alloc" -> "set_peer"
      [] p = "set_peer" -> "set_psk"
      [] p = "set_psk" -> "set_ips"
      [] p = "set_ips" -> "set_ka"
      [] p = "set_ka" -> "save"
      [] p = "save" -> "sync"
      [] p = "sync" -> "store"
      [] p = "store" -> "respond"
      [] p = "respond" -> "idle"
      [] p = "d_remove" -> "d_config"
      [] p = "d_config" -> "d_sync"
      [] p = "d_sync" -> "d_store"
      [] p = "d_store" -> "idle"

\* the handler's `except Exception: raise HTTPException(500, ...)`
Raise(step) ==
    /\ pc' = "idle"
    /\ steps' = Append(steps, step)
    /\ res' = [ op |-> cur.op, status |-> "error", public_key |-> cur.public_key,
                ipv4_address |-> cur.ipv4_address, warning |-> FALSE ]

\* --------------------------------------------------------------- create_peer

\* POST /api/peers arrives
CreatePeer(req) ==
    /\ pc = "idle"
    /\ nRequests < MaxRequests
    /\ pc' = "keys"
    /\ cur' = [NoLocals EXCEPT !.op = "create", !.req = req]
    /\ steps' = << >>
    /\ before' = [live |-> live, doc |-> doc, store |-> store]
    /\ res' = NoResponse
    /\ listing' = << >>
    /\ nRequests' = nRequests + 1
    /\ prev' = Summary
    /\ explicit' = (explicit \/ req.ipv4_address # 0)
    /\ UNCHANGED <<live, doc, store, nKeys, AllocVars, SideVars, SyncVars>>

\* generate_private_key, get_public_key, generate_pre_shared_key
GenerateKeys(ok) ==
    /\ pc = "keys"
    /\ IF ok
       THEN /\ cur' = [cur EXCEPT
                    !.private_key = generate_private_key(nKeys + 1),
                    !.public_key = get_public_key(generate_private_key(nKeys + 1)),
                    !.pre_shared_key = generate_pre_shared_key(nKeys + 1)]
            /\ nKeys' = nKeys + 1
            /\ pc' = NextPc(pc)
            /\ steps' = Append(steps, "keys")
            /\ UNCHANGED res
       ELSE /\ Raise("keys failed")
            /\ UNCHANGED <<cur, nKeys>>
    /\ UNCHANGED <<live, doc, store, before, nRequests, AllocVars, SideVars, HistVars,
                 SyncVars, listing>>

\* allowed_ips = peer.allowed_ips if peer.allowed_ips else [f"{ipv4_address}/32"]
BuildAllowedIps(req, ipv4_address) ==
    IF req.allowed_ips # << >> THEN req.allowed_ips ELSE <<ipv4_address>>

\* "Get or assign IP address" and "Build allowed IPs"; a failed dump is an
\* empty peer list to the allocator
AssignAddress(dumpOk, readable) ==
    /\ pc = "alloc"
    /\ dumpOk => up
    /\ \E view \in (IF dumpOk THEN DumpViews(live) ELSE { << >> }) :
        LET got == IF cur.req.ipv4_address # 0
                   THEN Address(cur.req.ipv4_address)
                   ELSE next_ipv4(CreateCidr(doc, readable), ExistingIps(view))
        IN  IF got.ok
            THEN /\ cur' = [cur EXCEPT
                        !.ipv4_address = got.ip,
                        !.allowed_ips = BuildAllowedIps(cur.req, got.ip),
                        !.dumped = dumpOk \/ cur.req.ipv4_address # 0]
                 /\ pc' = NextPc(pc)
                 /\ steps' = Append(steps, "alloc")
                 /\ UNCHANGED res
            ELSE /\ Raise("alloc failed")
                 /\ UNCHANGED cur
    /\ UNCHANGED <<live, doc, store, before, nKeys, nRequests, AllocVars, SideVars, HistVars,
                 SyncVars, listing>>

\* add_peer: `wg set wg0 peer K`
SetPeer(ok) ==
    /\ pc = "set_peer"
    /\ ok => up
    /\ IF ok
       THEN /\ live' = WgSetPeer(live, cur.public_key)
            /\ pc' = NextPc(pc)
            /\ steps' = Append(steps, "set peer")
            /\ UNCHANGED res
       ELSE /\ Raise("set peer failed")
            /\ UNCHANGED live
    /\ UNCHANGED <<doc, store, cur, before, nKeys, nRequests, AllocVars, SideVars, HistVars,
                 SyncVars, listing>>

\* add_peer: the preshared key, piped to `wg set ... preshared-key /dev/stdin`
SetPresharedKey(ok) ==
    /\ pc = "set_psk"
    /\ ok => up
    /\ IF cur.pre_shared_key = 0
       THEN /\ pc' = NextPc(pc)
            /\ UNCHANGED <<live, steps, res>>
       ELSE IF ok
       THEN /\ live' = WgSetPsk(live, cur.public_key, cur.pre_shared_key)
            /\ pc' = NextPc(pc)
            /\ steps' = Append(steps, "set preshared key")
            /\ UNCHANGED res
       ELSE /\ Raise("set preshared key failed")
            /\ UNCHANGED live
    /\ UNCHANGED <<doc, store, cur, before, nKeys, nRequests, AllocVars, SideVars, HistVars,
                 SyncVars, listing>>

\* add_peer: `wg set ... allowed-ips a,b`
SetAllowedIps(ok) ==
    /\ pc = "set_ips"
    /\ ok => up
    /\ IF cur.allowed_ips = << >>
       THEN /\ pc' = NextPc(pc)
            /\ UNCHANGED <<live, steps, res>>
       ELSE IF ok
       THEN /\ live' = WgSetAllowedIps(live, cur.public_key, Range(cur.allowed_ips))
            /\ pc' = NextPc(pc)
            /\ steps' = Append(steps, "set allowed ips")
            /\ UNCHANGED res
       ELSE /\ Raise("set allowed ips failed")
            /\ UNCHANGED live
    /\ UNCHANGED <<doc, store, cur, before, nKeys, nRequests, AllocVars, SideVars, HistVars,
                 SyncVars, listing>>

\* add_peer: `wg set ... persistent-keepalive n`, issued for a truthy n only
SetKeepalive(ok) ==
    /\ pc = "set_ka"
    /\ ok => up
    /\ IF cur.req.persistent_keepalive = 0
       THEN /\ pc' = NextPc(pc)
            /\ UNCHANGED <<live, steps, res>>
       ELSE IF ok
       THEN /\ live' = WgSetKeepalive(live, cur.public_key,
                                      cur.req.persistent_keepalive)
            /\ pc' = NextPc(pc)
            /\ steps' = Append(steps, "set keepalive")
            /\ UNCHANGED res
       ELSE /\ Raise("set keepalive failed")
            /\ UNCHANGED live
    /\ UNCHANGED <<doc, store, cur, before, nKeys, nRequests, AllocVars, SideVars, HistVars,
                 SyncVars, listing>>

\* add_peer: _save_peer_to_config; a failure is logged and swallowed
SavePeerToConfig(ok) ==
    /\ pc = "save"
    /\ doc' = IF ok
              THEN save_peer_to_config(doc, cur.public_key, cur.allowed_ips,
                                       cur.pre_shared_key,
                                       cur.req.persistent_keepalive)
              ELSE doc
    /\ cur' = [cur EXCEPT !.saved = ok]
    /\ pc' = NextPc(pc)
    /\ steps' = Append(steps, IF ok THEN "save" ELSE "save failed")
    /\ UNCHANGED <<live, store, res, before, nKeys, nRequests, AllocVars, SideVars, HistVars,
                 SyncVars, listing>>

\* _sync_config, the last call of add_peer and of remove_peer: `wg syncconf`
\* makes the interface's peers those of the file, or fails (the command, or
\* wg rejecting the file) and changes nothing; a failure is logged and
\* swallowed
SyncConfig(ok) ==
    /\ pc \in {"sync", "d_sync"}
    /\ LET parsed == WgParse(doc, 1, "none", << >>)
           done == ok /\ up /\ parsed.ok
       IN  /\ live' = IF done THEN WgSyncConf(parsed.peers) ELSE live
           /\ cur' = [cur EXCEPT !.synced = done]
           /\ steps' = Append(steps, IF done THEN "sync" ELSE "sync failed")
    /\ pc' = NextPc(pc)
    /\ UNCHANGED <<doc, store, res, before, nKeys, nRequests, AllocVars, SideVars, HistVars,
                 SyncVars, listing>>

\* peer_keys_store[public_key] = {...}
StoreKeys ==
    /\ pc = "store"
    /\ store' = [k \in DOMAIN store \cup {cur.public_key} |->
                    IF k = cur.public_key
                    THEN [ private_key |-> cur.private_key,
                           pre_shared_key |-> cur.pre_shared_key,
                           name |-> cur.req.name,
                           ipv4_address |-> cur.ipv4_address ]
                    ELSE store[k]]
    /\ pc' = NextPc(pc)
    /\ steps' = Append(steps, "store")
    /\ UNCHANGED <<live, doc, cur, res, before, nKeys, nRequests, AllocVars, SideVars, HistVars,
                 SyncVars, listing>>

\* return PeerResponse(...): 201, with no field that tells of a failed save
\* or sync
CreateResponse ==
    /\ pc = "respond"
    /\ res' = [ op |-> "create", status |-> "ok", public_key |-> cur.public_key,
                ipv4_address |-> cur.ipv4_address, warning |-> FALSE ]
    /\ pc' = "idle"
    /\ steps' = Append(steps, "respond")
    /\ UNCHANGED <<live, doc, store, cur, before, nKeys, nRequests, AllocVars, SideVars, HistVars,
                 SyncVars, listing>>

\* --------------------------------------------------------------- delete_peer

\* the keys with a [Peer] section in the file
ConfigKeys(content) ==
    { content[i][2][1] : i \in { j \in 1..Len(content) : IsPublicKeyLine(content[j]) } }

\* the public_key of a DELETE: any key the caller may hold -- one this API
\* generated (whether or not its peer still exists), the foreign peer's, or
\* one no peer ever had
DeleteTargets ==
    { get_public_key(generate_private_key(n)) : n \in 1..nKeys }
        \cup {ForeignKey, UnknownKey}

\* DELETE /api/peers/by-key arrives
DeletePeer(public_key) ==
    /\ pc = "idle"
    /\ nRequests < MaxRequests
    /\ pc' = "d_remove"
    /\ cur' = [NoLocals EXCEPT !.op = "delete", !.public_key = public_key]
    /\ steps' = << >>
    /\ before' = [live |-> live, doc |-> doc, store |-> store]
    /\ nRequests' = nRequests + 1
    /\ res' = NoResponse
    /\ listing' = << >>
    /\ prev' = Summary
    /\ UNCHANGED <<live, doc, store, nKeys, explicit, AllocVars, SideVars, SyncVars>>

\* a remove_peer that logs the failure of `wg set wg0 peer K remove` and goes on
RemovePeerSwallowing(ok) ==
    /\ pc = "d_remove"
    /\ ok => up
    /\ live' = IF ok THEN WgRemovePeer(live, cur.public_key) ELSE live
    /\ pc' = NextPc(pc)
    /\ steps' = Append(steps, IF ok THEN "remove peer" ELSE "remove peer failed")
    /\ UNCHANGED res
    /\ UNCHANGED <<doc, store, cur, before, nKeys, nRequests, AllocVars, SideVars, HistVars,
                 SyncVars, listing>>

\* remove_peer: `wg set wg0 peer K remove`
RemovePeer(ok) ==
    /\ pc = "d_remove"
    /\ ok => up
    /\ IF ok
       THEN /\ live' = WgRemovePeer(live, cur.public_key)
            /\ pc' = NextPc(pc)
            /\ steps' = Append(steps, "remove peer")
            /\ UNCHANGED res
       ELSE /\ Raise("remove peer failed")
            /\ UNCHANGED live
    /\ UNCHANGED <<doc, store, cur, before, nKeys, nRequests, AllocVars, SideVars, HistVars,
                 SyncVars, listing>>

\* remove_peer: _remove_peer_from_config; a failure is logged and swallowed
RemovePeerFromConfig(ok) ==
    /\ pc = "d_config"
    /\ doc' = IF ok THEN remove_peer_from_config(doc, cur.public_key) ELSE doc
    /\ cur' = [cur EXCEPT !.saved = ok]
    /\ pc' = NextPc(pc)
    /\ steps' = Append(steps, IF ok THEN "unsave" ELSE "unsave failed")
    /\ UNCHANGED <<live, store, res, before, nKeys, nRequests, AllocVars, SideVars, HistVars,
                 SyncVars, listing>>

\* del peer_keys_store[public_key] if present; return None (204)
DeleteKeys ==
    /\ pc = "d_store"
    /\ store' = [k \in DOMAIN store \ {cur.public_key} |-> store[k]]
    /\ res' = [ op |-> "delete", status |-> "ok", public_key |-> cur.public_key,
                ipv4_address |-> 0, warning |-> FALSE ]
    /\ pc' = "idle"
    /\ steps' = Append(steps, "unstore")
    /\ UNCHANGED <<live, doc, cur, before, nKeys, nRequests, AllocVars, SideVars, HistVars,
                 SyncVars, listing>>

\* --------------------------------------------------------------- sync_config

\* sync_config is called
sync_config_call ==
    /\ pc = "idle"
    /\ nRequests < MaxRequests
    /\ pc' = "s_syncconf"
    /\ cur' = [NoLocals EXCEPT !.op = "sync"]
    /\ steps' = << >>
    /\ before' = [live |-> live, doc |-> doc, store |-> store]
    /\ res' = NoResponse
    /\ listing' = << >>
    /\ nRequests' = nRequests + 1
    /\ prev' = Summary
    /\ UNCHANGED <<live, doc, store, nKeys, explicit, AllocVars, SideVars, SyncVars>>

\* a sync_config whose failed syncconf ends the call with the error
sync_config_no_fallback(ok) ==
    /\ pc = "s_syncconf"
    /\ LET parsed == WgParse(doc, 1, "none", << >>)
           done == ok /\ up /\ parsed.ok
       IN  /\ live' = IF done THEN WgSyncConf(parsed.peers) ELSE live
           /\ cur' = [cur EXCEPT !.synced = done]
           /\ steps' = Append(steps, IF done THEN "syncconf" ELSE "syncconf failed")
           /\ res' = [ op |-> "sync", status |-> IF done THEN "ok" ELSE "error",
                       public_key |-> 0, ipv4_address |-> 0, warning |-> FALSE ]
    /\ pc' = "idle"
    /\ UNCHANGED <<doc, store, before, nKeys, nRequests, AllocVars, SideVars, HistVars,
                   SyncVars, listing>>

\* sync_config: `wg syncconf wg0 <(wg-quick strip wg0)`; when it fails,
\* restart_interface is next
sync_config_syncconf(ok) ==
    /\ pc = "s_syncconf"
    /\ LET parsed == WgParse(doc, 1, "none", << >>)
           done == ok /\ up /\ parsed.ok
       IN  /\ live' = IF done THEN WgSyncConf(parsed.peers) ELSE live
           /\ cur' = [cur EXCEPT !.synced = done]
           /\ steps' = Append(steps, IF done THEN "syncconf" ELSE "syncconf failed")
           /\ pc' = IF done THEN "idle" ELSE "s_down"
           /\ res' = IF done
                     THEN [ op |-> "sync", status |-> "ok", public_key |-> 0,
                            ipv4_address |-> 0, warning |-> FALSE ]
                     ELSE res
    /\ UNCHANGED <<doc, store, before, nKeys, nRequests, AllocVars, SideVars, HistVars,
                   SyncVars, listing>>

\* a restart_interface whose failed `wg-quick down` ends the call with the error
restart_interface_down_raising(ok) ==
    /\ pc = "s_down"
    /\ ok => up
    /\ restarts' = restarts + 1
    /\ up' = IF ok THEN FALSE ELSE up
    /\ live' = IF ok THEN << >> ELSE live
    /\ IF ok
       THEN /\ steps' = Append(steps, "down")
            /\ pc' = "s_up"
            /\ UNCHANGED res
       ELSE Raise("down failed")
    /\ UNCHANGED <<doc, store, cur, before, nKeys, nRequests, AllocVars, SideVars,
                   HistVars, listing>>

\* restart_interface: `wg-quick down wg0` removes the interface and its peers;
\* it fails when there is no interface (or for another reason), and that is
\* ignored
restart_interface_down(ok) ==
    /\ pc = "s_down"
    /\ ok => up
    /\ restarts' = restarts + 1
    /\ up' = IF ok THEN FALSE ELSE up
    /\ live' = IF ok THEN << >> ELSE live
    /\ steps' = Append(steps, IF ok THEN "down" ELSE "down failed")
    /\ pc' = "s_up"
    /\ UNCHANGED <<doc, store, cur, res, before, nKeys, nRequests, AllocVars, SideVars,
                   HistVars, listing>>

\* restart_interface: `wg-quick up wg0` creates the interface with the peers
\* of the file; it fails when the interface exists, when wg rejects the file
\* (or for another reason), and that ends sync_config with the error
restart_interface_up(ok) ==
    /\ pc = "s_up"
    /\ LET parsed == WgParse(doc, 1, "none", << >>)
       IN  /\ ok => (~up /\ parsed.ok)
           /\ IF ok
              THEN /\ up' = TRUE
                   /\ live' = WgSyncConf(parsed.peers)
                   /\ pc' = "idle"
                   /\ steps' = Append(steps, "up")
                   /\ res' = [ op |-> "sync", status |-> "ok", public_key |-> 0,
                               ipv4_address |-> 0, warning |-> FALSE ]
              ELSE /\ Raise("up failed")
                   /\ UNCHANGED <<up, live>>
    /\ UNCHANGED <<doc, store, cur, before, nKeys, nRequests, AllocVars, SideVars, HistVars,
                   restarts, listing>>

\* ---------------------------------------------------------------- list_peers

\* f"peer-{public_key[:8]}"; the keys here are shorter than 8 characters
SynthName(public_key) == "peer-" \o ToString(public_key)

\* the PeerResponse list_peers builds for one peer of the dump
PeerEntry(public_key, view, l, st) ==
    LET stored == public_key \in DOMAIN st
    IN  [ public_key |-> public_key,
          name |-> IF stored /\ st[public_key].name # ""
                   THEN st[public_key].name ELSE SynthName(public_key),
          ipv4_address |->
                IF stored /\ st[public_key].ipv4_address # 0
                THEN st[public_key].ipv4_address
                ELSE IF public_key \in DOMAIN view THEN view[public_key] ELSE 0,
          allowed_ips |-> l[public_key].ips ]

\* a list that names every peer from its key
list_peers_unnamed(dumped, view, l, st) ==
    [ e \in { PeerEntry(k, view, l, << >>) : k \in dumped } |-> 1 ]

\* the result of list_peers, as the number of times each entry is in it: one
\* entry is appended for each peer of the dump
list_peers(dumped, view, l, st) ==
    [ e \in { PeerEntry(k, view, l, st) : k \in dumped } |->
        Cardinality({ k \in dumped : PeerEntry(k, view, l, st) = e }) ]

\* GET /api/peers; a failed dump is an empty peer list
ListPeers(dumpOk) ==
    /\ pc = "idle"
    /\ nRequests < MaxRequests
    /\ nRequests' = nRequests + 1
    /\ dumpOk => up
    /\ \E view \in (IF dumpOk THEN DumpViews(live) ELSE { << >> }) :
        LET dumped == IF dumpOk THEN DOMAIN live ELSE {}
        IN  listing' = << [ dumped |-> dumped,
                            entries |-> list_peers(dumped, view, live, store) ] >>
    /\ UNCHANGED <<live, doc, store, pc, cur, res, steps, before, nKeys,
                   AllocVars, SideVars, HistVars, SyncVars>>

Next ==
    \/ \E req \in Requests : CreatePeer(req)
    \/ \E ok \in BOOLEAN : GenerateKeys(ok)
    \/ \E dumpOk \in BOOLEAN, readable \in BOOLEAN : AssignAddress(dumpOk, readable)
    \/ \E ok \in BOOLEAN : SetPeer(ok)
    \/ \E ok \in BOOLEAN : SetPresharedKey(ok)
    \/ \E ok \in BOOLEAN : SetAllowedIps(ok)
    \/ \E ok \in BOOLEAN : SetKeepalive(ok)
    \/ \E ok \in BOOLEAN : SavePeerToConfig(ok)
    \/ \E ok \in BOOLEAN : SyncConfig(ok)
    \/ StoreKeys
    \/ CreateResponse
    \/ \E k \in DeleteTargets : DeletePeer(k)
    \/ \E ok \in BOOLEAN : RemovePeer(ok)
    \/ \E ok \in BOOLEAN : RemovePeerFromConfig(ok)
    \/ DeleteKeys
    \/ \E dumpOk \in BOOLEAN : ListPeers(dumpOk)

Spec == Init /\ [][Next]_vars

\* sync_config, which no request handler calls, beside create_peer and
\* delete_peer
SyncNext ==
    \/ sync_config_call
    \/ CreatePeer(DefaultRequest)
    \/ \E ok \in BOOLEAN : GenerateKeys(ok)
    \/ \E dumpOk \in BOOLEAN, readable \in BOOLEAN : AssignAddress(dumpOk, readable)
    \/ \E ok \in BOOLEAN : SetPeer(ok)
    \/ \E ok \in BOOLEAN : SetPresharedKey(ok)
    \/ \E ok \in BOOLEAN : SetAllowedIps(ok)
    \/ \E ok \in BOOLEAN : SetKeepalive(ok)
    \/ \E ok \in BOOLEAN : SavePeerToConfig(ok)
    \/ StoreKeys
    \/ CreateResponse
    \/ \E ok \in BOOLEAN : sync_config_syncconf(ok)
    \/ \E ok \in BOOLEAN : restart_interface_down(ok)
    \/ \E ok \in BOOLEAN : restart_interface_up(ok)
    \/ \E k \in DeleteTargets : DeletePeer(k)
    \/ \E ok \in BOOLEAN : RemovePeer(ok)
    \/ \E ok \in BOOLEAN : RemovePeerFromConfig(ok)
    \/ \E ok \in BOOLEAN : SyncConfig(ok)
    \/ DeleteKeys

SyncSpec == Init /\ [][SyncNext]_vars

\* create_peer with the address left to the allocator, and delete_peer
PoolNext ==
    \/ CreatePeer(DefaultRequest)
    \/ \E ok \in BOOLEAN : GenerateKeys(ok)
    \/ \E dumpOk \in BOOLEAN, readable \in BOOLEAN : AssignAddress(dumpOk, readable)
    \/ \E ok \in BOOLEAN : SetPeer(ok)
    \/ \E ok \in BOOLEAN : SetPresharedKey(ok)
    \/ \E ok \in BOOLEAN : SetAllowedIps(ok)
    \/ \E ok \in BOOLEAN : SetKeepalive(ok)
    \/ \E ok \in BOOLEAN : SavePeerToConfig(ok)
    \/ \E ok \in BOOLEAN : SyncConfig(ok)
    \/ StoreKeys
    \/ CreateResponse
    \/ \E k \in DeleteTargets : DeletePeer(k)
    \/ \E ok \in BOOLEAN : RemovePeer(ok)
    \/ \E ok \in BOOLEAN : RemovePeerFromConfig(ok)
    \/ DeleteKeys

\* these requests, served on an interface whose address pool is used up
PoolSpec == PoolInit /\ [][PoolNext]_vars

\* ------------------------------------------------------ reads of one peer
\* GET /api/peers/by-key, /by-key/config, /by-key/config/text, /by-key/qrcode

NoStoredKeys == [private_key |-> 0, pre_shared_key |-> 0, name |-> "", ipv4_address |-> 0]

\* a lookup that falls back on the record of some other peer
stored_keys_of_any(st, public_key) ==
    IF public_key \in DOMAIN st THEN st[public_key]
    ELSE IF DOMAIN st # { } THEN st[CHOOSE k \in DOMAIN st : TRUE]
    ELSE NoStoredKeys

\* peer_keys_store.get(public_key, {}), an absent field being 0
stored_keys(st, public_key) ==
    IF public_key \in DOMAIN st THEN st[public_key] ELSE NoStoredKeys

\* generate_client_config: the keys written in the text
generate_client_config(peer) ==
    [private_keys |-> {peer.private_key} \ {0}, pre_shared_key |-> peer.pre_shared_key]

ReadOps == {"by-key", "config", "config/text", "qrcode"}

\* the body of the answer: the private keys in it and the preshared key in it
ReadBody(op, public_key, l, st) ==
    LET keys == stored_keys(st, public_key)
    IN  CASE op = "by-key" ->
                [status |-> 200, private_keys |-> { }, pre_shared_key |-> 0]
          [] op = "config" ->
                [status |-> 200, private_keys |-> {keys.private_key} \ {0},
                 pre_shared_key |-> IF keys.pre_shared_key # 0 THEN keys.pre_shared_key
                                    ELSE l[public_key].psk]
          [] op = "config/text" ->
                IF keys.private_key # 0
                THEN [status |-> 200] @@ generate_client_config(keys)
                ELSE [status |-> 200, private_keys |-> { }, pre_shared_key |-> 0]
          [] op = "qrcode" ->
                IF keys.private_key = 0
                THEN [status |-> 400, private_keys |-> { }, pre_shared_key |-> 0]
                ELSE [status |-> 200] @@ generate_client_config(keys)

\* the handler: 404 without the peer in the dump, 500 without interface
\* information (not asked for by /by-key), else the body
ReadPeer(op, public_key, dumpOk, infoOk) ==
    /\ pc = "idle"
    /\ nRequests < MaxRequests
    /\ nRequests' = nRequests + 1
    /\ (dumpOk \/ infoOk) => up
    /\ LET found == dumpOk /\ public_key \in DOMAIN live
           body == IF ~found
                   THEN [status |-> 404, private_keys |-> { }, pre_shared_key |-> 0]
                   ELSE IF op # "by-key" /\ ~infoOk
                   THEN [status |-> 500, private_keys |-> { }, pre_shared_key |-> 0]
                   ELSE ReadBody(op, public_key, live, store)
       IN  reply' = << [op |-> op, public_key |-> public_key,
                        local |-> public_key \in DOMAIN store] @@ body >>
    /\ UNCHANGED <<live, doc, store, pc, cur, res, steps, before, nKeys, listing,
                   AllocVars, InfoVars, DbVars, HistVars, SyncVars, DumpVars, ex, FileVars, LoopVars>>

ReadNext ==
    \/ CreatePeer(DefaultRequest)
    \/ \E ok \in BOOLEAN : GenerateKeys(ok)
    \/ \E dumpOk \in BOOLEAN, readable \in BOOLEAN : AssignAddress(dumpOk, readable)
    \/ \E ok \in BOOLEAN : SetPeer(ok)
    \/ \E ok \in BOOLEAN : SetPresharedKey(ok)
    \/ \E ok \in BOOLEAN : SetAllowedIps(ok)
    \/ \E ok \in BOOLEAN : SetKeepalive(ok)
    \/ \E ok \in BOOLEAN : SavePeerToConfig(ok)
    \/ \E ok \in BOOLEAN : SyncConfig(ok)
    \/ StoreKeys
    \/ CreateResponse
    \/ \E k \in DeleteTargets : DeletePeer(k)
    \/ \E ok \in BOOLEAN : RemovePeer(ok)
    \/ \E ok \in BOOLEAN : RemovePeerFromConfig(ok)
    \/ DeleteKeys
    \/ \E dumpOk \in BOOLEAN : ListPeers(dumpOk)
    \/ \E op \in ReadOps, k \in DeleteTargets, dumpOk \in BOOLEAN, infoOk \in BOOLEAN :
            ReadPeer(op, k, dumpOk, infoOk)

\* the lifecycle with the reads of one peer
ReadSpec == Init /\ [][ReadNext]_vars

\* ------------------------------------------- claims about the peer lifecycle

\* the addresses peer k has: its allowed-ips entries on the interface and the
\* address the key store records for it
Holds(k) ==
    (live[k].ips \ {0})
        \cup (IF k \in DOMAIN store THEN {store[k].ipv4_address} ELSE {})

\* C1: while every create_peer leaves the address to the allocator, no two
\* peers on the interface have the same IPv4 address, and the address the
\* allocator returns is not one a peer on the interface already has.
C1_NoSharedAddress ==
    ~explicit =>
        /\ \A k1, k2 \in DOMAIN live : k1 # k2 => Holds(k1) \cap Holds(k2) = {}
        /\ (pc = "set_peer" /\ cur.op = "create")
                => \A k \in DOMAIN live : cur.ipv4_address \notin Holds(k)

\* the request just served was a successful delete_peer of the peer that the
\* request before it created at an address the allocator chose
DeletedTheCreated ==
    /\ pc = "idle"
    /\ res.op = "delete" /\ res.status = "ok"
    /\ prev.op = "create" /\ prev.status = "ok" /\ prev.assigned
    /\ res.public_key = prev.public_key

\* C4: after create_peer and then delete_peer of the created peer, the
\* allocated address is free: no peer on the interface has it and the next
\* allocation returns it.
C4_DeleteFreesAddress ==
    DeletedTheCreated =>
        /\ \A k \in DOMAIN live : prev.ipv4_address \notin live[k].ips
        /\ \A view \in DumpViews(live) :
                next_ipv4(CreateCidr(doc, TRUE), ExistingIps(view))
                    = Address(prev.ipv4_address)

\* the sections of a file: each runs from its header line to the line before
\* the next header
Starts(content) == { i \in 1..Len(content) : IsSectionHeader(content[i]) }
SectionFrom(content, i) ==
    LET nexts == { j \in Starts(content) : j > i }
        end == IF nexts = {} THEN Len(content)
               ELSE (CHOOSE j \in nexts : \A j2 \in nexts : j <= j2) - 1
    IN  SubSeq(content, i, end)
Sections(content) ==
    [ n \in 1..Cardinality(Starts(content)) |->
        SectionFrom(content,
            CHOOSE i \in Starts(content) :
                Cardinality({ j \in Starts(content) : j <= i }) = n) ]
\* the section is the Peer section of this key
IsPeerSectionOf(section, public_key) ==
    /\ IsPeerHeader(section[1])
    /\ \E i \in 1..Len(section) : section[i] = Line("PublicKey", <<public_key>>)

\* _remove_peer_from_config has just rewritten the file
Rewritten == pc = "d_sync" /\ cur.op = "delete" /\ cur.saved

\* C5: removing a key that has a Peer section leaves the other sections, each
\* as it was, and nothing else.
C5_RemoveExact ==
    (Rewritten /\ cur.public_key \in ConfigKeys(before.doc)) =>
        LET Kept(section) == ~IsPeerSectionOf(section, cur.public_key)
        IN  Sections(doc) = SelectSeq(Sections(before.doc), Kept)

\* C6: rewriting the file for a key that has no Peer section leaves its text
\* as it was.
C6_RewriteUnchanged ==
    (Rewritten /\ cur.public_key \notin ConfigKeys(before.doc)) =>
        doc = before.doc

Appended == pc = "sync" /\ cur.op = "create" /\ cur.saved

\* the lines of this keyword among the lines
LinesOf(lines, keyword) == { i \in 1..Len(lines) : lines[i][1] = keyword }

\* C8: the append keeps the previous content as a prefix and adds one section
\* that starts with [Peer], has the added PublicKey, and has a PresharedKey,
\* AllowedIPs and PersistentKeepalive line exactly for the fields supplied
\* (a field that is None, 0 or empty counts as not supplied).
C8_AppendsOneSection ==
    Appended =>
        LET old == before.doc
            new == SubSeq(doc, Len(old) + 1, Len(doc))
        IN  /\ Len(doc) > Len(old)
            /\ SubSeq(doc, 1, Len(old)) = old
            /\ new[1] = PeerHeader
            /\ Cardinality(Starts(new)) = 1
            /\ \E i \in 1..Len(new) : new[i] = Line("PublicKey", <<cur.public_key>>)
            /\ Cardinality(LinesOf(new, "PublicKey")) = 1
            /\ IF cur.pre_shared_key # 0
               THEN \E i \in 1..Len(new) :
                        /\ new[i] = Line("PresharedKey", <<cur.pre_shared_key>>)
                        /\ LinesOf(new, "PresharedKey") = {i}
               ELSE LinesOf(new, "PresharedKey") = {}
            /\ IF cur.allowed_ips # << >>
               THEN \E i \in 1..Len(new) :
                        /\ new[i] = Line("AllowedIPs", cur.allowed_ips)
                        /\ LinesOf(new, "AllowedIPs") = {i}
               ELSE LinesOf(new, "AllowedIPs") = {}
            /\ IF cur.req.persistent_keepalive # 0
               THEN \E i \in 1..Len(new) :
                        /\ new[i] = Line("PersistentKeepalive",
                                         <<cur.req.persistent_keepalive>>)
                        /\ LinesOf(new, "PersistentKeepalive") = {i}
               ELSE LinesOf(new, "PersistentKeepalive") = {}

\* an append, without keepalive, to a file that already had a Peer section
C8_Witness ==
    /\ Appended
    /\ cur.req.persistent_keepalive = 0
    /\ ConfigKeys(before.doc) # {}
    /\ Len(doc) = Len(before.doc) + 6

\* the place of a step in create_peer as the code runs it ...
StepRank(step) ==
    CASE step \in {"keys", "keys failed"} -> 1
      [] step \in {"alloc", "alloc failed"} -> 2
      [] step \in {"set peer", "set peer failed"} -> 3
      [] step \in {"set preshared key", "set preshared key failed"} -> 4
      [] step \in {"set allowed ips", "set allowed ips failed"} -> 5
      [] step \in {"set keepalive", "set keepalive failed"} -> 6
      [] step \in {"save", "save failed"} -> 7
      [] step \in {"sync", "sync failed"} -> 8
      [] step = "store" -> 9
      [] step = "respond" -> 10
      [] OTHER -> 0
\* ... and as claimed: the key store before the resync
StepRankClaimed(step) ==
    CASE step \in {"sync", "sync failed"} -> 9
      [] step = "store" -> 8
      [] OTHER -> StepRank(step)

Created == pc = "idle" /\ res.op = "create" /\ res.status = "ok"
CreateSteps ==
    { "keys", "alloc", "set peer", "set preshared key", "set allowed ips", "store" }

C10_WarningSurfaced ==
    (pc = "idle" /\ cur.op = "create" /\ res.op = "create"
        /\ "set allowed ips" \in Range(steps)
        /\ ("save failed" \in Range(steps) \/ "sync failed" \in Range(steps)))
        => (res.status = "ok" /\ res.warning)

\* create_peer has just answered with an error (HTTP 500)
CreateFailed == pc = "idle" /\ res.op = "create" /\ res.status = "error"

\* C11: when create_peer returns success, the peer it created is on the
\* interface at that moment, also when the append to the file failed and the
\* resync ran against the unchanged file.
C11_CreatedIsLive ==
    Created => res.public_key \in DOMAIN live

\* C12: when create_peer returns an error, no peer with the public key it
\* generated is on the interface, whichever of the `wg set` calls failed.
C12_NoOrphanOnError ==
    CreateFailed => cur.public_key \notin DOMAIN live

\* create_peer has just failed in key generation or in address allocation
FailedEarly ==
    /\ CreateFailed
    /\ steps[Len(steps)] \in {"keys failed", "alloc failed"}

\* C13: when key generation or address allocation fails, create_peer aborts
\* before any `wg set`: the interface, the file and the key store are as they
\* were before the call.
C13_FailFast ==
    FailedEarly =>
        /\ live = before.live /\ doc = before.doc /\ store = before.store
        /\ \A i \in 1..Len(steps) : StepRank(steps[i]) <= 2

\* the pool is used up and create_peer has failed in address allocation
C13_Witness ==
    /\ FailedEarly
    /\ steps = << "keys", "alloc failed" >>
    /\ Cardinality(DOMAIN live) = HostEnd - FirstHost

\* the place of a step in delete_peer as the code runs it ...
DeleteRank(step) ==
    CASE step \in {"remove peer", "remove peer failed"} -> 1
      [] step \in {"unsave", "unsave failed"} -> 2
      [] step \in {"sync", "sync failed"} -> 3
      [] step = "unstore" -> 4
      [] OTHER -> 0
\* ... and as claimed: the key store before the resync
DeleteRankClaimed(step) ==
    CASE step \in {"sync", "sync failed"} -> 4
      [] step = "unstore" -> 3
      [] OTHER -> DeleteRank(step)

Deleted == pc = "idle" /\ res.op = "delete" /\ res.status = "ok"

DeletedTwice ==
    /\ Deleted
    /\ prev.op = "delete" /\ prev.status = "ok"
    /\ prev.public_key = cur.public_key
    /\ prev.clean /\ cur.saved /\ cur.synced

\* C15: a delete_peer of a key that is not on the interface succeeds, and a
\* second delete_peer of the same key leaves the interface and the file as
\* the first left them.
C15_DeleteIdempotent ==
    /\ (cur.op = "delete" /\ pc = "d_config" /\ cur.public_key \notin DOMAIN before.live)
            => live = before.live
    /\ DeletedTwice => (live = before.live /\ doc = before.doc)

\* C16: a delete_peer of a key that has no key-store record does not answer
\* as the deletion of an existing record does: it reports that no peer was
\* found.
C16_NotFoundReported ==
    (pc = "idle" /\ res.op = "delete" /\ res.status # "error"
        /\ cur.public_key \notin DOMAIN before.store)
        => res.status = "not found"

\* list_peers has answered; what it answered
Listed == listing # << >>
Entries == listing[1].entries
\* the number of entries of the result for this key
EntriesOf(public_key) ==
    LET of == { e \in DOMAIN Entries : e.public_key = public_key }
    IN  IF of = {} THEN 0
        ELSE IF Cardinality(of) = 1 THEN Entries[CHOOSE e \in of : TRUE]
        ELSE 2
\* the result has one entry for each peer of the dump and no other entry
OnePerDumpedPeer ==
    /\ \A k \in listing[1].dumped : EntriesOf(k) = 1
    /\ \A e \in DOMAIN Entries : e.public_key \in listing[1].dumped

\* C17, as stated: list_peers returns one entry for each peer of the dump;
\* its name is the key store's name when the key has a record there, and a
\* name made from the public key otherwise.
C17_NameFromRecord ==
    Listed =>
        /\ OnePerDumpedPeer
        /\ \A e \in DOMAIN Entries :
                e.name = IF e.public_key \in DOMAIN store
                         THEN store[e.public_key].name
                         ELSE SynthName(e.public_key)

\* C17, amended: list_peers returns one entry for each peer of the dump; its
\* name is the key store's name when the key has a record there with a name
\* that is not empty, and a name made from the public key otherwise.
C17_NameFromNamedRecord ==
    Listed =>
        /\ OnePerDumpedPeer
        /\ \A e \in DOMAIN Entries :
                e.name = IF e.public_key \in DOMAIN store
                            /\ store[e.public_key].name # ""
                         THEN store[e.public_key].name
                         ELSE SynthName(e.public_key)

\* a list of two peers, one named by its record and one named from its key
C17_Witness ==
    /\ Listed
    /\ \E e1, e2 \in DOMAIN Entries :
            /\ e1.public_key \in DOMAIN store /\ e1.name = "alice"
            /\ e2.public_key \notin DOMAIN store
            /\ e2.name = SynthName(e2.public_key)

\* C18: every peer that has a key-store record and is not on the interface
\* has an entry in the list_peers result.
C18_UnappliedListed ==
    Listed => \A k \in DOMAIN store \ DOMAIN live : EntriesOf(k) >= 1

\* the steps of restart_interface
RestartSteps == { "down", "down failed", "up", "up failed" }
\* a failed apply-without-restart at this place of the steps is followed by
\* interface-down and then interface-up
FallsBackAt(i) ==
    /\ Len(steps) = i + 2
    /\ steps[i + 1] \in {"down", "down failed"}
    /\ steps[i + 2] \in {"up", "up failed"}

\* C19, as stated: when the apply-without-restart step fails, in sync_config
\* or in the resync that ends create_peer and delete_peer, the interface is
\* restarted: interface-down, then interface-up.
C19_AlwaysFallsBack ==
    pc = "idle" =>
        \A i \in 1..Len(steps) :
            steps[i] \in {"syncconf failed", "sync failed"} => FallsBackAt(i)

\* C19, amended: when the apply-without-restart step of sync_config fails,
\* the interface is restarted: interface-down, whose failure is ignored, then
\* interface-up; the resync that ends create_peer and delete_peer restarts
\* nothing.
C19_SyncConfigFallsBack ==
    /\ (pc = "idle" /\ cur.op = "sync") =>
            /\ \A i \in 1..Len(steps) : steps[i] = "syncconf failed" => FallsBackAt(i)
            /\ steps # << "syncconf" >> => steps[1] = "syncconf failed"
    /\ cur.op \in {"create", "delete"} => Range(steps) \cap RestartSteps = {}

\* a sync_config whose syncconf failed and whose restart brought the
\* interface back with the peers of the file
C19_Witness ==
    /\ pc = "idle" /\ cur.op = "sync" /\ res.status = "ok"
    /\ steps = << "syncconf failed", "down", "up" >>
    /\ up /\ live # << >>

\* C20: restarts are rate-limited: of the sync_config calls of one window
\* that fail to apply, not every one restarts the interface -- with
\* MaxRequests calls in the window, fewer than MaxRequests restarts.
C20_RestartsLimited ==
    restarts < MaxRequests

CommandOf(step, p) ==
    CASE step = "keys" ->
            [interpolated |-> {p.private_key}, stdin |-> { }]
      [] step \in {"set peer", "set peer failed"} ->
            [interpolated |-> {p.public_key}, stdin |-> { }]
      [] step \in {"set preshared key", "set preshared key failed"} ->
            [interpolated |-> {p.public_key, p.pre_shared_key}, stdin |-> { }]
      [] step \in {"set allowed ips", "set allowed ips failed"} ->
            [interpolated |-> {p.public_key} \cup Range(p.allowed_ips), stdin |-> { }]
      [] step \in {"set keepalive", "set keepalive failed"} ->
            [interpolated |-> {p.public_key}, stdin |-> { }]
      [] step = "save" ->
            [interpolated |-> {p.public_key, p.pre_shared_key} \cup Range(p.allowed_ips),
             stdin |-> { }]
      [] OTHER -> [interpolated |-> { }, stdin |-> { }]

\* C30: during create_peer the preshared key is in the text of no command
\* line: the command that sets it receives it on its standard input only.
C30_PskNotInCommandText ==
    (cur.op = "create" /\ cur.pre_shared_key # 0) =>
        \A i \in 1..Len(steps) :
            /\ cur.pre_shared_key \notin CommandOf(steps[i], cur).interpolated
            /\ steps[i] = "set preshared key" =>
                    cur.pre_shared_key \in CommandOf(steps[i], cur).stdin

\* C32: when delete_peer has answered 204, the peer is not on the interface,
\* has no Peer section in the file and has no entry in peer_keys_store, also
\* when the rewrite of the file failed and `wg syncconf` then ran on the file
\* as it was.
C32_DeletedEverywhere ==
    (pc = "idle" /\ res.op = "delete" /\ res.status = "ok") =>
        /\ res.public_key \notin DOMAIN live
        /\ res.public_key \notin ConfigKeys(doc)
        /\ res.public_key \notin DOMAIN store

\* C33: a delete_peer whose `wg set wg0 peer K remove` fails answers with the
\* error, has done nothing else, and leaves the file and peer_keys_store as
\* they were when the request arrived.
C33_FailedRemoveChangesNothing ==
    (pc = "idle" /\ cur.op = "delete" /\ "remove peer failed" \in Range(steps)) =>
        /\ res.op = "delete" /\ res.status = "error"
        /\ steps = << "remove peer failed" >>
        /\ doc = before.doc
        /\ store = before.store

C33_Witness ==
    /\ pc = "idle" /\ cur.op = "delete"
    /\ steps = << "remove peer failed" >>
    /\ res.status = "error"
    /\ prev.op = "create" /\ prev.status = "ok"
    /\ cur.public_key = prev.public_key
    /\ cur.public_key \in DOMAIN store
    /\ cur.public_key \in ConfigKeys(doc)
    /\ cur.public_key \in DOMAIN live

\* C34: two create_peer requests that arrive together and leave the address
\* to the allocator are served one after the other, each from its allocation
\* to its last `wg set`, and are given different addresses when both succeed
\* and both peers are on the interface.
C34_CreatesGetDifferentAddresses ==
    ( /\ pc = "idle"
      /\ res.op = "create" /\ res.status = "ok" /\ cur.req.ipv4_address = 0
      /\ prev.op = "create" /\ prev.status = "ok" /\ prev.assigned
      /\ {res.public_key, prev.public_key} \subseteq DOMAIN live )
        => res.ipv4_address # prev.ipv4_address

\* C38: restart_interface runs `wg-quick up` right after its attempt of
\* `wg-quick down`, whether that attempt failed or not, and a failed
\* `wg-quick up` ends sync_config with the error.
C38_UpFollowsDown ==
    /\ pc = "s_up" => steps[Len(steps)] \in {"down", "down failed"}
    /\ (pc = "idle" /\ cur.op = "sync") =>
            /\ \A i \in 1..Len(steps) :
                    steps[i] \in {"down", "down failed"} =>
                        i < Len(steps) /\ steps[i + 1] \in {"up", "up failed"}
            /\ \A i \in 1..Len(steps) :
                    steps[i] = "up failed" => i = Len(steps) /\ res.status = "error"
            /\ res.status = "ok" =>
                    steps[Len(steps)] \in {"syncconf", "up"}

C38_Witness ==
    /\ pc = "idle" /\ cur.op = "sync"
    /\ prev.op = "sync" /\ prev.status = "error"
    /\ steps = << "syncconf failed", "down failed", "up failed" >>
    /\ res.status = "error"

\* ------------------------------------- the allocator alone, on drawn inputs

Cidrs ==
    { <<Ip4(10, 8, 0, 0), 24>>, <<Ip4(10, 8, 0, 1), 24>>, <<Ip4(10, 8, 7, 0), 24>>,
      <<Ip4(10, 8, 0, 0), 25>>, <<Ip4(10, 8, 0, 128), 25>>,
      <<Ip4(10, 8, 4, 0), 23>>, <<Ip4(10, 8, 5, 1), 23>> }

\* in-use sets: a run of last octets 1..n of the CIDR's /24, with one hole,
\* plus addresses outside that /24
Fills == {0, 1, 2, 3, 4, 125, 126, 127, 128, 200, 253, 254, 255}
Holes == {0, 2, 3, 100, 127, 200, 254}
Extras == { {}, {Ip4(10, 8, 5, 2)}, {Ip4(10, 8, 0, 2), Ip4(10, 8, 5, 3)} }

InUse(cidr, n, hole, extra) ==
    { (cidr[1] \div 256) * 256 + i : i \in (1..n) \ {hole} } \cup extra

IdleMain ==
    /\ live = << >> /\ doc = InterfaceSection \o << Blank >> /\ store = << >>
    /\ pc = "idle" /\ cur = NoLocals /\ res = NoResponse /\ steps = << >>
    /\ before = [live |-> live, doc |-> doc, store |-> store]
    /\ nKeys = 0 /\ nRequests = 0 /\ prev = NoRequest /\ explicit = FALSE
    /\ listing = << >> /\ up = TRUE /\ restarts = 0

AllocInit ==
    /\ IdleMain
    /\ SideIdle
    /\ a_cidr \in Cidrs
    /\ \E n \in Fills, hole \in Holes, extra \in Extras :
            a_inuse = InUse(a_cidr, n, hole, extra)
    /\ a_res = << >>

Allocate ==
    /\ a_res = << >>
    /\ a_res' = << next_ipv4(a_cidr, a_inuse) >>
    /\ UNCHANGED <<MainVars, a_cidr, a_inuse, SideVars>>

AllocNext == Allocate

AllocSpec == AllocInit /\ [][AllocNext]_vars

\* ------------------------------------------- dump_peers, on drawn outputs
\* A text is the sequence of its tokens, the separators "\n", "\t", ",", "/"
\* and ":" being tokens of their own; None is << >> and a present value v
\* is <<v>>.

None == << >>
Some(v) == << v >>

Whitespace == {"\n", "\t", " "}

\* str.split(sep): the parts between the separators, one part at least
RECURSIVE Split(_, _)
Split(s, sep) ==
    IF \A i \in 1..Len(s) : s[i] # sep THEN << s >>
    ELSE LET i == CHOOSE i \in 1..Len(s) :
                        s[i] = sep /\ \A j \in 1..(i - 1) : s[j] # sep
         IN  << SubSeq(s, 1, i - 1) >> \o Split(SubSeq(s, i + 1, Len(s)), sep)

\* sep.join(parts)
RECURSIVE Join(_, _)
Join(parts, sep) ==
    IF parts = << >> THEN << >>
    ELSE IF Len(parts) = 1 THEN parts[1]
    ELSE parts[1] \o << sep >> \o Join(Tail(parts), sep)

\* str.strip(): without the whitespace at either end
RECURSIVE Strip(_)
Strip(s) ==
    IF s = << >> THEN s
    ELSE IF s[1] \in Whitespace THEN Strip(Tail(s))
    ELSE IF s[Len(s)] \in Whitespace THEN Strip(SubSeq(s, 1, Len(s) - 1))
    ELSE s

\* the decimal texts of the drawn outputs and their values: str.isdigit, int
Numbers ==
    [t \in {"0", "25", "1000", "2000", "51820", "1700000000"} |->
        CASE t = "0" -> 0 [] t = "25" -> 25 [] t = "1000" -> 1000
          [] t = "2000" -> 2000 [] t = "51820" -> 51820
          [] t = "1700000000" -> 1700000000]

isdigit(s) == Len(s) = 1 /\ s[1] \in DOMAIN Numbers
int(s) == Numbers[s[1]]

\* `wg show wg0 dump`: the interface's line, then one line per peer, each a
\* sequence of tab-separated fields
InterfaceLine == << <<"PRIV0">>, <<"PUB0">>, <<"51820">>, <<"off">> >>

PeerRecords ==
    { << <<"PUB1">>, <<"(none)">>, <<"1.2.3.4:51820">>, <<"10.8.0.2", "/", "32">>,
         <<"1700000000">>, <<"1000">>, <<"2000">>, <<"25">> >>,
      << <<"PUB2">>, <<"PSK2">>, <<"(none)">>,
         <<"10.8.0.3", "/", "32", ",", "fd00", ":", ":3", "/", "128">>,
         <<"0">>, <<"0">>, <<"0">>, <<"off">> >>,
      << <<"PUB3">>, <<"(none)">>, <<"(none)">>, <<"(none)">>,
         <<"0">>, <<"0">>, <<"0">>, <<"off">> >>,
      << <<"PUB6">>, <<"(none)">>, <<"(none)">>, <<"10.8.0.6", "/", "32">>,
         <<"soon">>, <<"-1">>, <<"many">>, <<"25">> >> }

ShortRecords ==
    { << <<"PUB4">>, <<"(none)">>, <<"(none)">>, <<"10.8.0.4", "/", "32">>, <<"0">> >>,
      << <<"PUB5">>, <<"(none)">>, <<"(none)">>, <<"10.8.0.5", "/", "32">>,
         <<"1700000000">>, <<"1000">>, <<"2000">> >>,
      << << >> >> }

MaxRecords == 2

RecordLists ==
    UNION { [1..n -> PeerRecords \cup ShortRecords] : n \in 0..MaxRecords }

\* the text wg prints for these lines
Render(lines) ==
    Join([i \in 1..Len(lines) |-> Join(lines[i], "\t")], "\n") \o << "\n" >>

\* the same loop, were the family of an address not looked at
RECURSIVE LastHostOfAny(_, _)
LastHostOfAny(entries, v6) ==
    IF entries = << >> THEN None
    ELSE LET ip == entries[Len(entries)]
         IN  IF "/" \in Range(ip) THEN Some(Split(ip, "/")[1])
             ELSE LastHostOfAny(SubSeq(entries, 1, Len(entries) - 1), v6)

\* the loop over allowed_ips_list: the host part of the last entry of each family
RECURSIVE LastHost(_, _)
LastHost(entries, v6) ==
    IF entries = << >> THEN None
    ELSE LET ip == entries[Len(entries)]
             ip_addr == Split(ip, "/")[1]
         IN  IF "/" \in Range(ip) /\ ((":" \in Range(ip_addr)) <=> v6)
             THEN Some(ip_addr)
             ELSE LastHost(SubSeq(entries, 1, Len(entries) - 1), v6)

peer_data(parts) ==
    LET allowed_ips == parts[4]
        latest_handshake == parts[5]
        split == Split(allowed_ips, ",")
        allowed_ips_list ==
            IF allowed_ips = << >> THEN << >>
            ELSE [i \in 1..Len(split) |-> Strip(split[i])]
    IN  [ public_key |-> parts[1],
          pre_shared_key |-> IF parts[2] # <<"(none)">> THEN Some(parts[2]) ELSE None,
          endpoint |-> IF parts[3] # <<"(none)">> THEN Some(parts[3]) ELSE None,
          allowed_ips |-> allowed_ips_list,
          ipv4_address |-> LastHost(allowed_ips_list, FALSE),
          ipv6_address |-> LastHost(allowed_ips_list, TRUE),
          latest_handshake |->
              IF latest_handshake # << >> /\ latest_handshake # <<"0">>
                 /\ isdigit(latest_handshake)
              THEN Some(int(latest_handshake)) ELSE None,
          transfer_rx |-> IF isdigit(parts[6]) THEN int(parts[6]) ELSE 0,
          transfer_tx |-> IF isdigit(parts[7]) THEN int(parts[7]) ELSE 0,
          persistent_keepalive |-> parts[8] ]

\* the same loop, were a counter that is not decimal to cost the line its entry
RECURSIVE ParseLinesNumeric(_)
ParseLinesNumeric(lines) ==
    IF lines = << >> THEN << >>
    ELSE LET line == lines[1]
             parts == Split(line, "\t")
         IN  IF Strip(line) = << >> THEN ParseLinesNumeric(Tail(lines))
             ELSE IF Len(parts) < 8 THEN ParseLinesNumeric(Tail(lines))
             ELSE IF ~isdigit(parts[6]) \/ ~isdigit(parts[7])
                  THEN ParseLinesNumeric(Tail(lines))
             ELSE << peer_data(parts) >> \o ParseLinesNumeric(Tail(lines))

\* the same loop, were it to stop at the first short line
RECURSIVE ParseLinesStopping(_)
ParseLinesStopping(lines) ==
    IF lines = << >> THEN << >>
    ELSE LET line == lines[1]
             parts == Split(line, "\t")
         IN  IF Strip(line) = << >> THEN ParseLinesStopping(Tail(lines))
             ELSE IF Len(parts) < 8 THEN << >>
             ELSE << peer_data(parts) >> \o ParseLinesStopping(Tail(lines))

\* the loop over lines[1:]
RECURSIVE ParseLines(_)
ParseLines(lines) ==
    IF lines = << >> THEN << >>
    ELSE LET line == lines[1]
             parts == Split(line, "\t")
         IN  IF Strip(line) = << >> THEN ParseLines(Tail(lines))
             ELSE IF Len(parts) < 8 THEN ParseLines(Tail(lines))
             ELSE << peer_data(parts) >> \o ParseLines(Tail(lines))

\* dump_peers, were the failure of the call to propagate
dump_peers_raising(out) ==
    IF ~out.ok THEN [raised |-> TRUE, peers |-> << >>]
    ELSE IF out.text = << >> THEN [raised |-> FALSE, peers |-> << >>]
    ELSE [raised |-> FALSE,
          peers |-> ParseLines(Tail(Split(Strip(out.text), "\n")))]

\* dump_peers: what it returns, and whether it raises
dump_peers(out) ==
    IF ~out.ok \/ out.text = << >> THEN [raised |-> FALSE, peers |-> << >>]
    ELSE [raised |-> FALSE,
          peers |-> ParseLines(Tail(Split(Strip(out.text), "\n")))]


\* ---------------------------------------------------- the metrics handlers
\* times are seconds since the epoch

ConnectedWindow == 180

\* WireGuardManager.get_peer_metrics: the first dumped peer with that key
get_peer_metrics(out, public_key) ==
    LET peers == dump_peers(out).peers
        at == { i \in 1..Len(peers) : peers[i].public_key = public_key }
    IN  IF at = { } THEN None
        ELSE LET peer == peers[CHOOSE i \in at : \A j \in at : i <= j]
             IN  Some([ public_key |-> peer.public_key, endpoint |-> peer.endpoint,
                        latest_handshake |-> peer.latest_handshake,
                        transfer_rx |-> peer.transfer_rx,
                        transfer_tx |-> peer.transfer_tx ])

\* the test of both handlers, were it to count the third minute in
is_connected_inclusive(metrics, now) ==
    /\ metrics # None
    /\ metrics[1].latest_handshake # None
    /\ now - metrics[1].latest_handshake[1] <= ConnectedWindow

\* the test of both handlers: a handshake within the last three minutes
is_connected(metrics, now) ==
    /\ metrics # None
    /\ metrics[1].latest_handshake # None
    /\ now - metrics[1].latest_handshake[1] < ConnectedWindow

MetricsResponse(peer_name, public_key, metrics, now) ==
    IF metrics # None
    THEN [ peer_name |-> peer_name,
           public_key |-> public_key, endpoint |-> metrics[1].endpoint,
           latest_handshake |-> metrics[1].latest_handshake,
           transfer_rx |-> metrics[1].transfer_rx,
           transfer_tx |-> metrics[1].transfer_tx,
           is_connected |-> is_connected(metrics, now) ]
    ELSE [ peer_name |-> peer_name,
           public_key |-> public_key, endpoint |-> None, latest_handshake |-> None,
           transfer_rx |-> 0, transfer_tx |-> 0, is_connected |-> FALSE ]

\* the rows of the database's peers table the handlers may find: the table is
\* made at startup and no handler writes it, so its rows are those the file
\* already had
Row(public_key, name, enabled) ==
    [ public_key |-> public_key, name |-> name, enabled |-> enabled ]

DbTables ==
    { { },
      { Row(<<"PUB1">>, "alice", FALSE) },
      { Row(<<"PUB1">>, "alice", TRUE), Row(<<"PUB2">>, "bob", FALSE) },
      { Row(<<"PUB6">>, "carol", FALSE), Row(<<"PUB3">>, "dave", FALSE) } }

\* {p.public_key: p for p in db_peers}; public_key is UNIQUE in the table
db_peers_by_key(db_peers) ==
    [ k \in { p.public_key : p \in db_peers } |->
        CHOOSE p \in db_peers : p.public_key = k ]

\* the name of the row, or f"peer-{public_key[:8]}"
peer_name_of(by_key, public_key) ==
    IF public_key \in DOMAIN by_key THEN by_key[public_key].name
    ELSE SynthName(public_key)

is_enabled_of(by_key, public_key) ==
    IF public_key \in DOMAIN by_key THEN by_key[public_key].enabled ELSE TRUE

\* the times at which the handlers are asked, around the drawn handshake
Nows == { 1700000000 + d : d \in {60, 179, 180, 200} }

DumpKeys == { r[1] : r \in PeerRecords }

DumpInit ==
    /\ IdleMain /\ AllocIdle
    /\ reply = << >> /\ ex = NoCall /\ wr = NoRewrite /\ seen = << >>
    /\ tasks = << >> /\ trace = << >>
    /\ i_out = NoInfo /\ i_res = << >>
    /\ iface = << >> /\ inits = << >>
    /\ \E ok \in BOOLEAN, records \in RecordLists, silent \in BOOLEAN :
            /\ silent => ok /\ records = << >>
            /\ d_out = [ok |-> ok, records |-> records,
                        text |-> IF silent THEN << >>
                                 ELSE Render(<< InterfaceLine >> \o records)]
    /\ d_res = << >>
    /\ m_res = << >>

DumpPeers ==
    /\ d_res = << >> /\ m_res = << >>
    /\ d_res' = << dump_peers(d_out) >>
    /\ UNCHANGED <<MainVars, AllocVars, InfoVars, DbVars, reply, d_out, m_res, ex, FileVars, LoopVars>>

\* the same response, were a peer without metrics to get no entry
all_metrics_skipping(wg_peers, by_key, lost, out, now) ==
    LET kept == SelectSeq([i \in 1..Len(wg_peers) |-> i], LAMBDA i : i \notin lost)
        peers == [n \in 1..Len(kept) |->
                    MetricsResponse(peer_name_of(by_key, wg_peers[kept[n]].public_key),
                        wg_peers[kept[n]].public_key,
                        get_peer_metrics(out, wg_peers[kept[n]].public_key), now)]
        enabled == { i \in 1..Len(wg_peers) : is_enabled_of(by_key, wg_peers[i].public_key) }
    IN  [ handler |-> "get_all_metrics", now |-> now, status |-> 200,
          total_peers |-> Len(wg_peers),
          enabled_peers |-> Cardinality(enabled),
          connected_peers |->
              Cardinality({ n \in 1..Len(peers) :
                                peers[n].is_connected /\ kept[n] \in enabled }),
          peers |-> peers ]

\* the AllMetricsResponse: one entry for each peer of the first dump, the
\* counts of the enabled peers and of the enabled peers that are connected
all_metrics(wg_peers, by_key, lost, out, now) ==
    LET peers == [i \in 1..Len(wg_peers) |->
                    MetricsResponse(peer_name_of(by_key, wg_peers[i].public_key),
                        wg_peers[i].public_key,
                        IF i \in lost THEN None
                        ELSE get_peer_metrics(out, wg_peers[i].public_key),
                        now)]
        enabled == { i \in 1..Len(wg_peers) : is_enabled_of(by_key, wg_peers[i].public_key) }
    IN  [ handler |-> "get_all_metrics", now |-> now, status |-> 200,
          total_peers |-> Len(wg_peers),
          enabled_peers |-> Cardinality(enabled),
          connected_peers |->
              Cardinality({ i \in enabled : peers[i].is_connected }),
          peers |-> peers ]

\* GET /api/metrics/: one dump for the list of peers, the rows of the database,
\* then one dump per peer (lost: the peers whose own dump fails)
GetAllMetrics(now, lost, db_peers) ==
    /\ d_res = << >> /\ m_res = << >>
    /\ LET wg_peers == dump_peers(d_out).peers
       IN  /\ lost \subseteq 1..Len(wg_peers)
           /\ m_res' = << all_metrics(wg_peers, db_peers_by_key(db_peers),
                                      lost, d_out, now) >>
    /\ UNCHANGED <<MainVars, AllocVars, InfoVars, DbVars, reply, d_out, d_res, ex, FileVars, LoopVars>>

\* GET /api/metrics/{peer_id}: peer is the row of the database, if there is one
GetPeerMetrics(peer, now) ==
    /\ d_res = << >> /\ m_res = << >>
    /\ m_res' = << IF peer = None
                   THEN [ handler |-> "get_peer_metrics", now |-> now, status |-> 404,
                          total_peers |-> 0, enabled_peers |-> 0,
                          connected_peers |-> 0, peers |-> << >> ]
                   ELSE [ handler |-> "get_peer_metrics", now |-> now, status |-> 200,
                          total_peers |-> 0, enabled_peers |-> 0,
                          connected_peers |-> 0,
                          peers |-> << MetricsResponse(peer[1].name, peer[1].public_key,
                                          get_peer_metrics(d_out, peer[1].public_key),
                                          now) >> ] >>
    /\ UNCHANGED <<MainVars, AllocVars, InfoVars, DbVars, reply, d_out, d_res, ex, FileVars, LoopVars>>

DumpNext ==
    \/ DumpPeers
    \/ \E now \in Nows, lost \in SUBSET (1..MaxRecords), db_peers \in DbTables :
            GetAllMetrics(now, lost, db_peers)
    \/ \E peer \in {None} \cup { Some(p) : p \in UNION DbTables }, now \in Nows :
            GetPeerMetrics(peer, now)

DumpSpec == DumpInit /\ [][DumpNext]_vars

\* ------------------------------------- the two listings of one interface
\* GET /api/metrics/ beside create_peer and list_peers. The interface of
\* these requests carries no handshake and no counters, so the answer is kept
\* as the name it gives each peer of the dump.

\* the peers table when these requests are served: empty, or with a row for
\* the peer that was on the interface at the start
NameTables == { { }, { Row(ForeignKey, "carol", TRUE) } }

AllMetricsNames(dumpOk, db_peers) ==
    /\ pc = "idle"
    /\ nRequests < MaxRequests
    /\ nRequests' = nRequests + 1
    /\ dumpOk => up
    /\ LET dumped == IF dumpOk THEN DOMAIN live ELSE {}
       IN  m_res' = << [ handler |-> "get_all_metrics", status |-> 200,
                         total_peers |-> Cardinality(dumped),
                         names |-> [ k \in dumped |->
                                        peer_name_of(db_peers_by_key(db_peers), k) ] ] >>
    /\ UNCHANGED <<live, doc, store, pc, cur, res, steps, before, nKeys, listing,
                   AllocVars, InfoVars, DbVars, HistVars, SyncVars, reply, d_out, d_res, ex, FileVars,
                   LoopVars>>

NameNext ==
    \/ \E req \in {DefaultRequest, [DefaultRequest EXCEPT !.name = ""]} : CreatePeer(req)
    \/ \E ok \in BOOLEAN : GenerateKeys(ok)
    \/ \E dumpOk \in BOOLEAN, readable \in BOOLEAN : AssignAddress(dumpOk, readable)
    \/ \E ok \in BOOLEAN : SetPeer(ok)
    \/ \E ok \in BOOLEAN : SetPresharedKey(ok)
    \/ \E ok \in BOOLEAN : SetAllowedIps(ok)
    \/ \E ok \in BOOLEAN : SetKeepalive(ok)
    \/ \E ok \in BOOLEAN : SavePeerToConfig(ok)
    \/ \E ok \in BOOLEAN : SyncConfig(ok)
    \/ StoreKeys
    \/ CreateResponse
    \/ \E dumpOk \in BOOLEAN : ListPeers(dumpOk)
    \/ \E dumpOk \in BOOLEAN, db_peers \in NameTables : AllMetricsNames(dumpOk, db_peers)

NameSpec == Init /\ [][NameNext]_vars

\* C35: for every peer of the interface that create_peer made and named, the
\* name GET /api/metrics/ gives is the name list_peers gives, the name of the
\* request.
C35_SameNameInBothListings ==
    (pc = "idle" /\ m_res # << >>) =>
        \A k \in DOMAIN m_res[1].names :
            (k \in DOMAIN live /\ k \in DOMAIN store /\ store[k].name # "") =>
                /\ m_res[1].names[k] = PeerEntry(k, << >>, live, store).name
                /\ m_res[1].names[k] = store[k].name

\* ------------------------------------- claims about dump_peers and metrics

Dumped == d_res # << >>

IsWellFormed(r) == Len(r) >= 8

WellFormed == SelectSeq(d_out.records, IsWellFormed)

GaveOutput == d_out.ok /\ d_out.text # << >>

\* C26: dump_peers skips the interface's line and every line of fewer than 8
\* tab-separated fields and raises nothing: it returns one entry for each of
\* the other lines, in their order, whatever lines came before them.
C26_SkipsMalformed ==
    (Dumped /\ GaveOutput) =>
        /\ ~d_res[1].raised
        /\ Len(d_res[1].peers) = Len(WellFormed)
        /\ \A i \in 1..Len(WellFormed) :
                d_res[1].peers[i].public_key = WellFormed[i][1]

C26_Witness ==
    /\ Dumped /\ GaveOutput
    /\ Len(d_out.records) = 2
    /\ Len(d_out.records[1]) = 5
    /\ Len(d_out.records[2]) = 8
    /\ Len(d_res[1].peers) = 1

\* the hosts of the IPv4 entries of an allowed-ips field: an IPv4 host is one
\* token, at the start of its entry and right before the "/"
V4Hosts(f) ==
    { f[i] : i \in { j \in 1..(Len(f) - 1) :
                        f[j + 1] = "/" /\ (j = 1 \/ f[j - 1] = ",") } }

Decimal == {"0", "25", "1000", "2000", "1700000000"}

Value(t) ==
    CASE t = "0" -> 0 [] t = "25" -> 25 [] t = "1000" -> 1000
      [] t = "2000" -> 2000 [] t = "1700000000" -> 1700000000

FieldsKept(r, e) ==
    /\ e.public_key = r[1]
    /\ e.endpoint = IF r[3] = <<"(none)">> THEN None ELSE Some(r[3])
    /\ r[6][1] \in Decimal => e.transfer_rx = Value(r[6][1])
    /\ r[7][1] \in Decimal => e.transfer_tx = Value(r[7][1])
    /\ r[5] = <<"0">> => e.latest_handshake = None
    /\ (r[5][1] \in Decimal /\ r[5] # <<"0">>) =>
            e.latest_handshake = Some(Value(r[5][1]))
    /\ \A h \in V4Hosts(r[4]) : V4Hosts(r[4]) = {h} => e.ipv4_address = Some(<< h >>)
    /\ V4Hosts(r[4]) = { } => e.ipv4_address = None

\* C27: every line of 8 fields gives exactly one entry, with the line's public
\* key, endpoint, counters and handshake, "(none)" being absent, the handshake
\* "0" being never, and ipv4_address the host of the line's IPv4 allowed-ips
\* entry; the line PUB1 (none) 1.2.3.4:51820 10.8.0.2/32 1700000000 1000 2000 25
\* gives 10.8.0.2, 1000, 2000, 1.2.3.4:51820 and the time 1700000000.
C27_FieldsKept ==
    (Dumped /\ GaveOutput) =>
        /\ Len(d_res[1].peers) = Len(WellFormed)
        /\ \A i \in 1..Len(d_res[1].peers) :
                /\ i <= Len(WellFormed) => FieldsKept(WellFormed[i], d_res[1].peers[i])
                /\ d_res[1].peers[i].public_key = <<"PUB1">> =>
                        /\ d_res[1].peers[i].ipv4_address = Some(<<"10.8.0.2">>)
                        /\ d_res[1].peers[i].transfer_rx = 1000
                        /\ d_res[1].peers[i].transfer_tx = 2000
                        /\ d_res[1].peers[i].endpoint = Some(<<"1.2.3.4:51820">>)
                        /\ d_res[1].peers[i].latest_handshake = Some(1700000000)
                        /\ d_res[1].peers[i].pre_shared_key = None

C27_Witness ==
    /\ Dumped /\ GaveOutput
    /\ Len(d_res[1].peers) = 2
    /\ d_res[1].peers[1].public_key = <<"PUB1">>
    /\ d_res[1].peers[1].latest_handshake = Some(1700000000)
    /\ d_res[1].peers[2].public_key = <<"PUB2">>
    /\ d_res[1].peers[2].ipv4_address = Some(<<"10.8.0.3">>)
    /\ d_res[1].peers[2].latest_handshake = None

\* what dump_peers gives for an interface that has no peer
NoPeersDumped ==
    dump_peers([ok |-> TRUE, records |-> << >>, text |-> Render(<< InterfaceLine >>)])

\* C28: when `wg show wg0 dump` fails, dump_peers raises nothing and returns
\* the empty list, which is what it returns for an interface without peers;
\* a handler built on it answers as for such an interface.
C28_FailedDumpIsEmpty ==
    /\ (Dumped /\ ~d_out.ok) =>
            /\ ~d_res[1].raised
            /\ d_res[1].peers = << >>
            /\ d_res[1] = NoPeersDumped
    /\ (m_res # << >> /\ ~d_out.ok /\ m_res[1].handler = "get_all_metrics") =>
            m_res[1].total_peers = 0 /\ m_res[1].peers = << >>

C28_Witness ==
    /\ Dumped /\ ~d_out.ok
    /\ Len(SelectSeq(d_out.records, IsWellFormed)) = 2
    /\ d_res[1].peers = << >>

\* C22: a peer is reported connected exactly when its latest handshake is
\* present and less than three minutes (180 s) before now: connected 60 s
\* after the handshake, not connected 200 s after it, nor without handshake.
C22_ConnectedWithinWindow ==
    m_res # << >> =>
        \A i \in 1..Len(m_res[1].peers) :
            LET e == m_res[1].peers[i]
            IN  e.is_connected <=>
                    /\ e.latest_handshake # None
                    /\ m_res[1].now - e.latest_handshake[1] < 3 * 60

C22_Witness ==
    /\ m_res # << >>
    /\ \E i \in 1..Len(m_res[1].peers) :
            /\ m_res[1].peers[i].latest_handshake # None
            /\ m_res[1].now - m_res[1].peers[i].latest_handshake[1] = 180
            /\ ~m_res[1].peers[i].is_connected
    /\ \E i \in 1..Len(m_res[1].peers) :
            /\ m_res[1].peers[i].latest_handshake = None
            /\ ~m_res[1].peers[i].is_connected

\* C39: a line of 8 fields whose rx or tx field is not a decimal number still
\* gives its entry, in its place, with that counter 0 and with the public key,
\* pre-shared key, endpoint, allowed-ips, address, handshake, keepalive and the
\* other counter as the line has them.
C39_CounterDefaultsToZero ==
    (Dumped /\ GaveOutput) =>
        /\ Len(d_res[1].peers) = Len(WellFormed)
        /\ \A i \in 1..Len(WellFormed) :
            LET r == WellFormed[i]
                e == d_res[1].peers[i]
            IN  (i <= Len(d_res[1].peers)
                    /\ (r[6][1] \notin Decimal \/ r[7][1] \notin Decimal)) =>
                    /\ r[6][1] \notin Decimal => e.transfer_rx = 0
                    /\ r[7][1] \notin Decimal => e.transfer_tx = 0
                    /\ FieldsKept(r, e)
                    /\ e.pre_shared_key = IF r[2] = <<"(none)">> THEN None ELSE Some(r[2])
                    /\ e.persistent_keepalive = r[8]
                    /\ Join(e.allowed_ips, ",") = r[4]

C39_Witness ==
    /\ Dumped /\ GaveOutput
    /\ Len(d_res[1].peers) = 2
    /\ d_out.records[1][6] = <<"-1">> /\ d_out.records[1][7] = <<"many">>
    /\ d_res[1].peers[1].public_key = <<"PUB6">>
    /\ d_res[1].peers[1].transfer_rx = 0 /\ d_res[1].peers[1].transfer_tx = 0
    /\ d_res[1].peers[1].ipv4_address = Some(<<"10.8.0.6">>)
    /\ d_res[1].peers[2].public_key = <<"PUB1">>
    /\ d_res[1].peers[2].transfer_rx = 1000

ExecTimeout == 10

MaxWait == 12

Calls ==
    { [fn |-> "_exec", use_container |-> TRUE],
      [fn |-> "_exec", use_container |-> FALSE],
      [fn |-> "get_public_key", use_container |-> FALSE],
      [fn |-> "subprocess.run", use_container |-> TRUE] }

\* what an attempt does: it exits with 0, exits with another code, or hangs
Outcomes == {"ok", "fail", "hang"}

\* the timeout an attempt runs under, if any
Timeout(call) == IF call.fn = "get_public_key" THEN None ELSE Some(ExecTimeout)

\* the route of the first attempt
FirstRoute(call) ==
    IF call.use_container THEN "docker" ELSE "direct"

Running == ex.pc = "running"

Outcome == ex.outcomes[Len(ex.attempts)]

TimedOut ==
    /\ Outcome = "hang"
    /\ Timeout(ex.call) # None
    /\ ex.waited = Timeout(ex.call)[1]

ExecInit ==
    /\ IdleMain /\ AllocIdle /\ SideIdle

\* the call starts its first attempt; outcomes are those of its attempts
Call(call, outcomes) ==
    /\ ex.pc = "idle"
    /\ ex' = [pc |-> "running", call |-> call, outcomes |-> outcomes,
              attempts |-> << FirstRoute(call) >>, waited |-> 0, result |-> "none"]
    /\ UNCHANGED <<MainVars, AllocVars, InfoVars, DbVars, reply, DumpVars, FileVars, LoopVars>>

\* a second passes while the command hangs
Tick ==
    /\ Running
    /\ Outcome = "hang"
    /\ ex.waited < (IF Timeout(ex.call) # None THEN Timeout(ex.call)[1] ELSE MaxWait)
    /\ ex' = [ex EXCEPT !.waited = @ + 1]
    /\ UNCHANGED <<MainVars, AllocVars, InfoVars, DbVars, reply, DumpVars, FileVars, LoopVars>>

\* _exec, use_container: docker exec failed or timed out, the command is run
\* again, directly
Fallback ==
    /\ Running
    /\ ex.call.fn = "_exec" /\ ex.attempts = << "docker" >>
    /\ Outcome = "fail" \/ TimedOut
    /\ ex' = [ex EXCEPT !.attempts = Append(@, "direct"), !.waited = 0]
    /\ UNCHANGED <<MainVars, AllocVars, InfoVars, DbVars, reply, DumpVars, FileVars, LoopVars>>

\* the call returns or raises
Return ==
    /\ Running
    /\ ~(ex.call.fn = "_exec" /\ ex.attempts = << "docker" >> /\ Outcome # "ok")
    /\ Outcome # "hang" \/ TimedOut
    /\ ex' = [ex EXCEPT !.pc = "returned",
                        !.result = CASE Outcome = "ok" -> "ok"
                                     [] Outcome = "fail" -> "Exception"
                                     [] OTHER -> "TimeoutExpired"]
    /\ UNCHANGED <<MainVars, AllocVars, InfoVars, DbVars, reply, DumpVars, FileVars, LoopVars>>

ExecNext ==
    \/ \E call \in Calls :
        \E outcomes \in [1..(IF call.fn = "_exec" /\ call.use_container THEN 2 ELSE 1)
                            -> Outcomes] :
            Call(call, outcomes)
    \/ Tick
    \/ Fallback
    \/ Return

ExecSpec == ExecInit /\ [][ExecNext]_vars

\* ------------------------------------------ claims about external commands

\* C24: every external command ends within its timeout: no call, key
\* generation and public-key derivation included, is still waiting for its
\* command after the timeout.
C24_EndsWithinTimeout ==
    Running => ex.waited <= ExecTimeout

\* C25: a command that an operation requests is executed at most once.
C25_ExecutedAtMostOnce ==
    Len(ex.attempts) <= 1

\* ------------------------------- the config file, written while it is read
\* _remove_peer_from_config reads the file (`cat`), computes the new content
\* and writes it with `sh -c "cat > wg0.conf << 'EOF' ..."`: the shell opens
\* the file truncating it, then cat fills it.  _save_peer_to_config appends
\* with one `echo ... >> wg0.conf`.  Another process (wg-quick, wg-easy) may
\* read the file at any moment.

MaxRewrites == 2

FileKeys == { get_public_key(generate_private_key(n)) : n \in 1..2 } \cup {ForeignKey}

FilePeer(content, k) ==
    save_peer_to_config(content, k, << k - 100 + Ip4(10, 8, 0, 2) >>, 100 + k, 25)

Docs ==
    LET base == InterfaceSection \o << Blank >>
        foreign == InterfaceSection \o ForeignSection \o << Blank >>
    IN  { base, foreign, FilePeer(base, 101), FilePeer(foreign, 101),
          FilePeer(FilePeer(base, 101), 102), FilePeer(FilePeer(foreign, 101), 102) }

NotDoc == <<live, store, pc, cur, res, steps, before, nKeys, nRequests, prev,
            explicit, listing, up, restarts>>

FileInit ==
    /\ doc \in Docs
    /\ live = << >> /\ store = << >>
    /\ pc = "idle" /\ cur = NoLocals /\ res = NoResponse /\ steps = << >>
    /\ before = [live |-> live, doc |-> doc, store |-> store]
    /\ nKeys = 0 /\ nRequests = 0 /\ prev = NoRequest /\ explicit = FALSE
    /\ listing = << >> /\ up = TRUE /\ restarts = 0
    /\ AllocIdle /\ SideIdle

\* docker exec ... cat wg0.conf, and the loop that drops the peer's section
ReadForRewrite(public_key) ==
    /\ wr.pc = "idle" /\ wr.n < MaxRewrites
    /\ wr' = [pc |-> "read", old |-> doc,
              new |-> remove_peer_from_config(doc, public_key), n |-> wr.n + 1]
    /\ UNCHANGED <<doc, seen, NotDoc, AllocVars, InfoVars, DbVars, reply, DumpVars, ex, LoopVars>>

\* the shell opens wg0.conf for `>`: the file is empty from here on
Truncate ==
    /\ wr.pc = "read"
    /\ doc' = << >>
    /\ wr' = [wr EXCEPT !.pc = "truncated"]
    /\ UNCHANGED <<seen, NotDoc, AllocVars, InfoVars, DbVars, reply, DumpVars, ex, LoopVars>>

\* cat writes the new content; or the command ends before it has (ok false)
WriteBack(ok) ==
    /\ wr.pc = "truncated"
    /\ doc' = IF ok THEN wr.new ELSE doc
    /\ wr' = [wr EXCEPT !.pc = "idle"]
    /\ UNCHANGED <<seen, NotDoc, AllocVars, InfoVars, DbVars, reply, DumpVars, ex, LoopVars>>

\* echo '[Peer]...' >> wg0.conf: one write at the end of the file
AppendPeer(public_key) ==
    /\ wr.pc = "idle" /\ wr.n < MaxRewrites
    /\ doc' = FilePeer(doc, public_key)
    /\ wr' = [pc |-> "idle", old |-> doc, new |-> doc', n |-> wr.n + 1]
    /\ UNCHANGED <<seen, NotDoc, AllocVars, InfoVars, DbVars, reply, DumpVars, ex, LoopVars>>

\* another process reads the file
ReadFile ==
    /\ seen' = << [lines |-> doc, old |-> wr.old, new |-> wr.new,
                   rewriting |-> wr.pc # "idle"] >>
    /\ UNCHANGED <<doc, wr, NotDoc, AllocVars, InfoVars, DbVars, reply, DumpVars, ex, LoopVars>>

FileNext ==
    \/ \E public_key \in FileKeys : ReadForRewrite(public_key)
    \/ Truncate
    \/ \E ok \in BOOLEAN : WriteBack(ok)
    \/ \E public_key \in FileKeys : AppendPeer(public_key)
    \/ ReadFile

FileSpec == FileInit /\ [][FileNext]_vars

\* ------------------------------------------- claims about the file's readers

\* C21: a process that reads the config file while it is being rewritten
\* reads the complete old document or the complete new one, never an empty
\* or partial one.
C21_OldOrNew ==
    (seen # << >> /\ seen[1].rewriting) =>
        seen[1].lines \in {seen[1].old, seen[1].new}

\* ------------------------------------------- requests on the event loop
\* create_peer and delete_peer are coroutines without an await: the event
\* loop runs the handler of one request from its first step to its last
\* before it starts another.  Each step runs a command in the wg-easy
\* container with timeout=10; when the timeout expires the handler goes on
\* (or raises), while the command it started is still running in the
\* container and ends later.

MaxTasks == 2

MaxTimeouts == 1

HandlerSteps(op) ==
    IF op = "create_peer"
    THEN << "wg set", "append wg0.conf", "syncconf" >>
    ELSE << "wg set remove", "rewrite wg0.conf", "syncconf" >>

\* the handler being run, 0 if none
RunningTask ==
    IF \E t \in 1..Len(tasks) : tasks[t].at > 0 /\ ~tasks[t].done
    THEN CHOOSE t \in 1..Len(tasks) : tasks[t].at > 0 /\ ~tasks[t].done
    ELSE 0

\* the commands started and not ended yet
Pending ==
    { i \in 1..Len(trace) :
        /\ trace[i].what = "run"
        /\ ~\E j \in (i + 1)..Len(trace) :
                /\ trace[j].what = "end"
                /\ trace[j].task = trace[i].task /\ trace[j].step = trace[i].step }

\* the commands whose timeout expired: their end does not follow their start
TimedOutRuns ==
    { i \in 1..Len(trace) :
        /\ trace[i].what = "run"
        /\ \/ i = Len(trace)
           \/ trace[i + 1] # [trace[i] EXCEPT !.what = "end"] }

LoopInit ==
    /\ IdleMain /\ AllocIdle /\ SideIdle

\* a request arrives and waits for the loop
Accept(op) ==
    /\ Len(tasks) < MaxTasks
    /\ tasks' = Append(tasks, [op |-> op, at |-> 0, done |-> FALSE])
    /\ UNCHANGED <<trace, MainVars, AllocVars, InfoVars, DbVars, reply, DumpVars, ex, FileVars>>

\* the loop starts a waiting handler when it runs no other
Start(t) ==
    /\ RunningTask = 0
    /\ tasks[t].at = 0 /\ ~tasks[t].done
    /\ tasks' = [tasks EXCEPT ![t].at = 1]
    /\ UNCHANGED <<trace, MainVars, AllocVars, InfoVars, DbVars, reply, DumpVars, ex, FileVars>>

\* the running handler performs its next step: the command ends in time, with
\* success or not, or the timeout expires first.  A failed or timed-out
\* `wg set` ends the handler with an error; the other steps only log.
Step(t, outcome) ==
    /\ RunningTask = t
    /\ outcome = "timeout" => Cardinality(TimedOutRuns) < MaxTimeouts
    /\ LET step == HandlerSteps(tasks[t].op)[tasks[t].at]
           last == tasks[t].at = Len(HandlerSteps(tasks[t].op))
           raised == tasks[t].at = 1 /\ outcome # "ok"
       IN  /\ trace' = trace
                    \o << [task |-> t, step |-> step, what |-> "run"] >>
                    \o (IF outcome = "timeout" THEN << >>
                        ELSE << [task |-> t, step |-> step, what |-> "end"] >>)
           /\ tasks' = [tasks EXCEPT ![t].at = IF last \/ raised THEN @ ELSE @ + 1,
                                     ![t].done = last \/ raised]
    /\ UNCHANGED <<MainVars, AllocVars, InfoVars, DbVars, reply, DumpVars, ex, FileVars>>

\* a command left behind by a timeout ends in the container
Land(i) ==
    /\ i \in Pending
    /\ trace' = Append(trace, [task |-> trace[i].task, step |-> trace[i].step,
                               what |-> "end"])
    /\ UNCHANGED <<tasks, MainVars, AllocVars, InfoVars, DbVars, reply, DumpVars, ex, FileVars>>

LoopNext ==
    \/ \E op \in {"create_peer", "delete_peer"} : Accept(op)
    \/ \E t \in 1..Len(tasks) : Start(t)
    \/ \E t \in 1..Len(tasks), outcome \in {"ok", "failed", "timeout"} : Step(t, outcome)
    \/ \E i \in 1..Len(trace) : Land(i)

LoopSpec == LoopInit /\ [][LoopNext]_vars

\* --------------------------------------- claims about concurrent requests

\* C23: two mutating operations are never in progress together: from the
\* start of a command of one operation to its end, no command of another
\* operation starts or ends.
C23_NoInterleaving ==
    \A i \in 1..Len(trace) :
        trace[i].what = "run" =>
            \A m \in (i + 1)..Len(trace) :
                trace[m].task # trace[i].task =>
                    \E j \in (i + 1)..(m - 1) :
                        /\ trace[j].what = "end"
                        /\ trace[j].task = trace[i].task
                        /\ trace[j].step = trace[i].step

\* ------------------------------------------ get_interface_info, on drawn outputs
\* `wg show wg0`: the interface's block of labeled lines, then a block for
\* each peer after a blank line. A line is the sequence of its tokens, a label
\* with its colon being one token.

\* peer blocks shown in one output
MaxBlocks == 2

InterfaceBlock(public_key, private, listening_port) ==
    << <<"interface:", " ", "wg0">> >>
        \o (IF public_key = None THEN << >>
            ELSE << <<" ", " ", "public key:", " ">> \o public_key[1] >>)
        \o (IF private THEN << <<" ", " ", "private key:", " ", "(hidden)">> >> ELSE << >>)
        \o (IF listening_port = None THEN << >>
            ELSE << <<" ", " ", "listening port:", " ">> \o listening_port[1] >>)

PeerBlocks ==
    { << << >>, <<"peer:", " ", "PUB1">>,
         <<" ", " ", "preshared key:", " ", "(hidden)">>,
         <<" ", " ", "allowed ips:", " ", "10.8.0.2", "/", "32">> >>,
      << << >>, <<"peer:", " ", "PUB2">>,
         <<" ", " ", "endpoint:", " ", "1.2.3.4:51820">>,
         <<" ", " ", "allowed ips:", " ", "(none)">> >> }

BlockLists == UNION { [1..n -> PeerBlocks] : n \in 0..MaxBlocks }

RECURSIVE Concat(_)
Concat(seqs) == IF seqs = << >> THEN << >> ELSE seqs[1] \o Concat(Tail(seqs))

\* the text wg prints for these lines
ShowText(lines) == Join(lines, "\n") \o << "\n" >>

\* the loop over the lines: the text after each label; int raises on a port
\* that is not decimal
RECURSIVE ScanInfo(_, _)
ScanInfo(lines, interface_info) ==
    IF lines = << >> THEN interface_info
    ELSE LET line == lines[1]
         IN  IF "public key:" \in Range(line)
             THEN ScanInfo(Tail(lines),
                    [interface_info EXCEPT
                        !.public_key = Some(Strip(Split(line, "public key:")[2]))])
             ELSE IF "listening port:" \in Range(line)
             THEN LET port == Strip(Split(line, "listening port:")[2])
                  IN  IF isdigit(port)
                      THEN ScanInfo(Tail(lines),
                              [interface_info EXCEPT !.listening_port = Some(int(port))])
                      ELSE [interface_info EXCEPT !.raised = TRUE]
             ELSE ScanInfo(Tail(lines), interface_info)

\* a get_interface_info that returns what it has without a public key
get_interface_info_keyless(out) ==
    IF ~out.ok THEN None
    ELSE LET info == ScanInfo(Split(Strip(out.text), "\n"),
                        [ name |-> "wg0", public_key |-> None,
                          listening_port |-> None, raised |-> FALSE ])
         IN  IF info.raised THEN None
             ELSE Some([ name |-> info.name,
                         public_key |-> IF info.public_key = None THEN << >>
                                        ELSE info.public_key[1],
                         listening_port |-> info.listening_port ])

\* get_interface_info: None when the call or the parsing raises or no public
\* key was found, else the dict
get_interface_info(out) ==
    IF ~out.ok THEN None
    ELSE LET info == ScanInfo(Split(Strip(out.text), "\n"),
                        [ name |-> "wg0", public_key |-> None,
                          listening_port |-> None, raised |-> FALSE ])
         IN  IF info.raised THEN None
             ELSE IF info.public_key # None /\ info.public_key[1] # << >>
             THEN Some([ name |-> info.name, public_key |-> info.public_key[1],
                         listening_port |-> info.listening_port ])
             ELSE None

InfoInit ==
    /\ IdleMain /\ AllocIdle
    /\ reply = << >> /\ d_out = NoDump /\ d_res = << >> /\ m_res = << >>
    /\ ex = NoCall /\ wr = NoRewrite /\ seen = << >>
    /\ tasks = << >> /\ trace = << >>
    /\ iface = << >> /\ inits = << >>
    /\ \E ok \in BOOLEAN, silent \in BOOLEAN, private \in BOOLEAN,
          public_key \in {None, Some(<<"PUB0">>), Some(<<"PUB9">>)},
          listening_port \in {None, Some(<<"51820">>), Some(<<"2000">>)},
          blocks \in BlockLists :
            /\ silent => (ok /\ public_key = None /\ listening_port = None
                            /\ ~private /\ blocks = << >>)
            /\ i_out = [ ok |-> ok, public_key |-> public_key,
                         listening_port |-> listening_port,
                         text |-> IF silent THEN << >>
                                  ELSE ShowText(InterfaceBlock(public_key, private,
                                                    listening_port)
                                                \o Concat(blocks)) ]
    /\ i_res = << >>

GetInterfaceInfo ==
    /\ i_res = << >>
    /\ i_res' = << get_interface_info(i_out) >>
    /\ UNCHANGED <<MainVars, AllocVars, reply, DumpVars, ex, FileVars, LoopVars,
                   i_out, DbVars>>

InfoNext == GetInterfaceInfo

InfoSpec == InfoInit /\ [][InfoNext]_vars

\* ------------------------------------------ claims about get_interface_info

PortValue(t) == CASE t = "51820" -> 51820 [] t = "2000" -> 2000

\* C31: get_interface_info returns None when `wg show wg0` fails or prints no
\* "public key:" line, and else the name wg0 with the public key and the
\* listening port of their lines, the port being absent without its line.
C31_InterfaceInfo ==
    i_res # << >> =>
        IF ~i_out.ok \/ i_out.public_key = None
        THEN i_res[1] = None
        ELSE i_res[1] = Some([ name |-> "wg0",
                               public_key |-> i_out.public_key[1],
                               listening_port |->
                                    IF i_out.listening_port = None THEN None
                                    ELSE Some(PortValue(i_out.listening_port[1][1])) ])

C31_Witness ==
    /\ i_res # << >>
    /\ i_out.ok /\ i_out.public_key = Some(<<"PUB9">>)
    /\ "preshared key:" \in Range(i_out.text)
    /\ "endpoint:" \in Range(i_out.text)
    /\ i_res[1] = Some([ name |-> "wg0", public_key |-> <<"PUB9">>,
                         listening_port |-> Some(51820) ])

\* ------------------------------------------ the interface row of the database
\* Database.init_interface, called by several coroutines: each await is a
\* point where another call may run.

\* calls of init_interface in one behaviour
MaxInits == 2

InitArgs ==
    { [ private_key |-> 1, public_key |-> 101, port |-> 51820, ipv4_cidr |-> DefaultCidr ],
      [ private_key |-> 2, public_key |-> 102, port |-> 51820, ipv4_cidr |-> DefaultCidr ],
      [ private_key |-> 1, public_key |-> 101, port |-> 2000, ipv4_cidr |-> <<Ip4(10, 9, 0, 0), 24>> ] }

\* the row a database file may already have
OldRow ==
    [ name |-> "wg0", private_key |-> 9, public_key |-> 109, port |-> 51820,
      ipv4_cidr |-> DefaultCidr ]

InterfaceRow(args) ==
    [ name |-> "wg0", private_key |-> args.private_key, public_key |-> args.public_key,
      port |-> args.port, ipv4_cidr |-> args.ipv4_cidr ]

DbInit ==
    /\ IdleMain /\ AllocIdle
    /\ reply = << >> /\ d_out = NoDump /\ d_res = << >> /\ m_res = << >>
    /\ ex = NoCall /\ wr = NoRewrite /\ seen = << >>
    /\ tasks = << >> /\ trace = << >>
    /\ i_out = NoInfo /\ i_res = << >>
    /\ iface \in { << >>, << OldRow >> }
    /\ inits = << >>

\* init_interface is called and opens its connection
InitInterface(args) ==
    /\ Len(inits) < MaxInits
    /\ inits' = Append(inits, [ args |-> args, at |-> "get", existing |-> << >>,
                                result |-> "none" ])
    /\ UNCHANGED <<MainVars, AllocVars, reply, DumpVars, ex, FileVars, LoopVars,
                   InfoVars, iface>>

\* existing = await self.get_interface(); the call ends here when there is a row
get_interface(i) ==
    /\ inits[i].at = "get"
    /\ inits' = [inits EXCEPT ![i].existing = iface,
                              ![i].at = IF iface # << >> THEN "done" ELSE "insert",
                              ![i].result = IF iface # << >> THEN "kept" ELSE "none"]
    /\ UNCHANGED <<MainVars, AllocVars, reply, DumpVars, ex, FileVars, LoopVars,
                   InfoVars, iface>>

\* an insert that replaces the row of the same name
InsertOrReplace(i) ==
    /\ inits[i].at = "insert"
    /\ iface' = << InterfaceRow(inits[i].args) >>
    /\ inits' = [inits EXCEPT ![i].at = "done", ![i].result = "inserted"]
    /\ UNCHANGED <<MainVars, AllocVars, reply, DumpVars, ex, FileVars, LoopVars,
                   InfoVars>>

\* INSERT INTO interface ... and commit; name is the PRIMARY KEY, so the
\* insert raises when a row 'wg0' has appeared since the SELECT
Insert(i) ==
    /\ inits[i].at = "insert"
    /\ iface' = IF iface = << >> THEN << InterfaceRow(inits[i].args) >> ELSE iface
    /\ inits' = [inits EXCEPT ![i].at = "done",
                              ![i].result = IF iface = << >> THEN "inserted" ELSE "raised"]
    /\ UNCHANGED <<MainVars, AllocVars, reply, DumpVars, ex, FileVars, LoopVars,
                   InfoVars>>

DbNext ==
    \/ \E args \in InitArgs : InitInterface(args)
    \/ \E i \in 1..Len(inits) : get_interface(i)
    \/ \E i \in 1..Len(inits) : Insert(i)

DbSpec == DbInit /\ [][DbNext]_vars

\* ------------------------------------------ claims about the interface row

\* C37: init_interface inserts its row only into a table without row, and
\* once the table has a row no call of init_interface changes its private
\* key, public key, port or CIDR.
C37_CreatedOnce ==
    [][ /\ iface # << >> => iface' = iface
        /\ iface' # iface =>
              \E i \in 1..Len(inits) :
                  /\ inits[i].result = "none" /\ inits'[i].result = "inserted"
                  /\ iface' = << InterfaceRow(inits[i].args) >> ]_vars

C37_Witness ==
    /\ Len(inits) = 2
    /\ inits[1].result = "inserted"
    /\ inits[2].result = "raised"
    /\ inits[2].existing = << >>
    /\ inits[1].args.private_key # inits[2].args.private_key
    /\ iface = << InterfaceRow(inits[1].args) >>

\* ----------------------------------------------- claims about the allocator

Network(cidr) == (cidr[1] \div BlockSize(cidr)) * BlockSize(cidr)
Allocated == Len(a_res) = 1 /\ a_res[1].ok
Refused == Len(a_res) = 1 /\ ~a_res[1].ok

\* the address is in the block, unused, and has the smallest unused host id >= 2
SmallestUnusedFromTwo(ip, cidr, inuse) ==
    /\ InBlock(ip, cidr)
    /\ ip \notin inuse
    /\ HostId(ip, cidr) >= 2
    /\ \A h \in 2..(HostId(ip, cidr) - 1) : (Network(cidr) + h) \in inuse

\* every host address of the block is in use
AllHostsInUse(cidr, inuse) ==
    \A h \in 1..(BlockSize(cidr) - 2) : (Network(cidr) + h) \in inuse
\* some host address of the block with host id >= 2 is unused
SomeHostFromTwoFree(cidr, inuse) ==
    \E h \in 2..(BlockSize(cidr) - 2) : (Network(cidr) + h) \notin inuse

\* C2, as stated: for every CIDR block and in-use set, the address next_ipv4
\* returns is inside the block, unused, and has the smallest unused host id >= 2.
C2_AnyCidr ==
    Allocated => SmallestUnusedFromTwo(a_res[1].ip, a_cidr, a_inuse)

\* C2, amended: for every /24 block and in-use set, the address next_ipv4
\* returns is inside the block, unused, and has the smallest unused host id >= 2.
C2_Slash24 ==
    (Allocated /\ a_cidr[2] = 24)
        => SmallestUnusedFromTwo(a_res[1].ip, a_cidr, a_inuse)

\* a /24 whose host ids 2..99 and 101.. are in use and whose host id 100 was given
C2_Witness ==
    /\ Allocated /\ a_cidr[2] = 24
    /\ HostId(a_res[1].ip, a_cidr) = 100
    /\ (Network(a_cidr) + 2) \in a_inuse
    /\ (Network(a_cidr) + 101) \in a_inuse

\* C3, as stated: allocation fails when every host address of the block is in
\* use, and succeeds while a host address with host id >= 2 is unused.
C3_AnyCidr ==
    Len(a_res) = 1 =>
        /\ AllHostsInUse(a_cidr, a_inuse) => ~a_res[1].ok
        /\ SomeHostFromTwoFree(a_cidr, a_inuse) => a_res[1].ok

\* C3, amended: in a /24 block, allocation fails when every host address of
\* the block is in use, and succeeds while a host address with host id >= 2
\* is unused.
C3_Slash24 ==
    (Len(a_res) = 1 /\ a_cidr[2] = 24) =>
        /\ AllHostsInUse(a_cidr, a_inuse) => ~a_res[1].ok
        /\ SomeHostFromTwoFree(a_cidr, a_inuse) => a_res[1].ok

\* a /24 with all 254 host addresses in use, and the allocation refused
C3_Witness ==
    /\ Refused /\ a_cidr[2] = 24
    /\ AllHostsInUse(a_cidr, a_inuse)

====
